---- MODULE Spec2Model ----
(***************************************************************************)
(* PromptStash: the version ledger (src/src/versionManager.ts) and the     *)
(* optimizer that commits to it (optimizer.ts, kept as                     *)
(* src/unnamed/part_002), with the judge it scores through                 *)
(* (src/src/completion.ts).                                                *)
(*                                                                         *)
(* Scores are kept in tenths (3.0 is 30, 4.5 is 45): every score of the    *)
(* program has at most one decimal.  A text is the sequence of the chunks  *)
(* it is concatenated from.  Timestamps (createdAt, lastModified) and the  *)
(* free-text fields inspirationSource and changeNote are left out: no      *)
(* decision of the program reads them.                                     *)
(***************************************************************************)
EXTENDS Integers, Sequences, FiniteSets, TLC

\* ------------------------------------------------------------------ bounds

\* The total number of versions the ledger may hold (over all histories).
MaxTotalVersions == 3

\* The number of tokens in a reply of the model that is handed to the parsers.
MaxReplyTokens == 4

\* The number of callers that may have a call on one judge in flight at once.
MaxTasks == 2

\* The number of reference records in the corpus handed to the retriever.
MaxCorpus == 3

\* The number of listeners registered with the controller at one time.
MaxListeners == 2

\* The number of cycles of one kind the controller completes.
MaxCycleCount == 1

\* ------------------------------------------------------------------ inputs

\* Prompt identifiers the callers use.
Ids == {"p1", "p2"}

\* judgeScore?: number -- the value of an absent or undefined judgeScore.
Undefined == -1

\* Scores (in tenths) the callers pass to setScore and addVersion.
ScoreInputs == {30, 45}

\* The texts the callers supply: one chunk each.
\*   "bare": 'Write some code for me' (22 characters, no vocabulary of any rule)
\*   "rich": 'You are a reviewer. Output must be JSON.' (40 characters: role,
\*           output and constraint vocabulary, too short for the other rules)
Bare == <<"bare">>
Rich == <<"rich">>
UserTexts == {Bare, Rich}

\* The text the callers append to a history.
AppendTexts == {Rich}

\* Two more texts, for the judge and for optimizePrompt:
\*   "plain": 'The output must be a list of five short bullet points.'
\*            (54 characters: output and constraint vocabulary, no role)
\*   "full":  '## Review\nYou are a reviewer. First, ensure the output handles
\*            every error, for example {{input}}.\n```\ncode\n```\n' followed by
\*            twenty times 'Explain every finding in a sentence of its own. '
\*            (1072 characters, every pattern of heuristicScore)
\*   "review": '## Review\nYou are a senior reviewer. Read the diff below and
\*            list every bug you find. The output must be a bullet list, one
\*            bullet per bug, with the file name and the line number in each
\*            bullet.\n```\n- return a + b;\n+ return a - b;\n```\n'
\*            (235 characters; scores 3.6, and 4.1 after the rules)
Plain == <<"plain">>
Full == <<"full">>
Review == <<"review">>
Prompts == {Bare, Rich, Plain, Full, Review}

\* Texts with a role phrase, three numbered steps, a constraint word and a
\* fenced code block:
\*   "excellent": the prompt of the test 'excellent structured prompt scores
\*                high' (test_llmJudge.ts:36-60; 688 characters, headings,
\*                steps '1.' '2.' '3.' at line starts)
\*   "lean":      'You are a reviewer.\n1. Read the code.\n2. List the bugs.\n
\*                3. Fix them.\nYou must keep the tests.\n```\ncode\n```\n'
\*                (107 characters)
\*   "terse":     'Act as QA.\n1. Read\n2. Fix\n3. Test\nMust.\n```\n```'
\*                (47 characters)
\*   "stepwise":  'You are a reviewer. Step 1: read the code. Step 2: list the
\*                bugs. Step 3: fix them. You must keep the tests. ```code```'
\*                (119 characters, the steps numbered in the running text)
\*   "brief":     'Act as QA. Step 1, step 2, step 3. Must. ```x```'
\*                (48 characters)
StructuredTexts == {<<"excellent">>, <<"lean">>, <<"terse">>, <<"stepwise">>, <<"brief">>}

\* source: 'manual' | 'auto-optimize' | 'import'
AppendSources == {"auto-optimize"}

\* The callers that may have a call on the judge in flight at the same time.
Tasks == 1..MaxTasks

VARIABLES
    store,         \* VersionManager.store.histories: promptId -> PromptHistory
    disk,          \* the file at storagePath: whether it exists, and the JSON in it
    last,          \* the last call that returned: its name, arguments and result
    llmAvailable,  \* LLMJudge.llmAvailable: "null", "true" or "false"
    opt,           \* the optimizer call awaiting its judge, if any
    calls,         \* the judge calls in flight: for each caller, where its call stands
    hist,          \* what the judge has done so far: probes begun, failures seen
    sched,         \* the fields of the UpdateScheduler
    cycles,        \* the crawl and optimize cycles in flight
    runtime        \* the host: the intervals that are armed, and the clock

vars == <<store, disk, last, llmAvailable, opt, calls, hist, sched, cycles, runtime>>

\* ------------------------------------------------------------------ versions

\* ver.judgeScore as the program reads it: undefined when the key is absent.
Score(v) == IF "judgeScore" \in DOMAIN v THEN v.judgeScore ELSE Undefined

\* ver.judgeScore = score: adds the key when the version had none.
WithScore(v, s) ==
    [version |-> v.version, content |-> v.content, source |-> v.source, judgeScore |-> s]

\* The version initHistory builds: no judgeScore key at all.
FirstVersion(content, source) ==
    [version |-> 1, content |-> content, source |-> source]

\* A variant of NextVersion that forgets the increment.
NextVersionSame(versions) ==
    IF Len(versions) > 0 THEN versions[Len(versions)].version ELSE 1

\* nextVersion of addVersion.
NextVersion(versions) ==
    IF Len(versions) > 0 THEN versions[Len(versions)].version + 1 ELSE 1

\* A variant of FindVersion that falls back to the latest version.
FindVersionOrLast(versions, version) ==
    IF \E i \in 1..Len(versions) : versions[i].version = version
    THEN CHOOSE i \in 1..Len(versions) : versions[i].version = version
    ELSE Len(versions)

\* history.versions.find(v => v.version === version): the index found, 0 if none.
FindVersion(versions, version) ==
    IF \E i \in 1..Len(versions) : versions[i].version = version
    THEN CHOOSE i \in 1..Len(versions) :
            /\ versions[i].version = version
            /\ \A j \in 1..(i - 1) : versions[j].version # version
    ELSE 0

\* The loop of recalcRecommended from index i on, with the best version so far.
RECURSIVE BestFrom(_, _, _)
BestFrom(versions, i, best) ==
    IF i > Len(versions) THEN best
    ELSE LET ver == versions[i] IN
         IF Score(ver) # Undefined
         THEN IF Score(best) = Undefined \/ Score(ver) > Score(best)
              THEN BestFrom(versions, i + 1, ver)
              ELSE IF Score(ver) = Score(best) /\ ver.version > best.version
                   THEN BestFrom(versions, i + 1, ver)
                   ELSE BestFrom(versions, i + 1, best)
         ELSE BestFrom(versions, i + 1, best)

\* A variant of recalcRecommended that keeps the older of two equal scores.
recalcRecommendedOlderWins(h) ==
    IF Len(h.versions) = 0 THEN h
    ELSE LET scored == {i \in 1..Len(h.versions) : Score(h.versions[i]) # Undefined}
             best == IF scored = {} THEN Len(h.versions)
                     ELSE CHOOSE i \in scored :
                            \A j \in scored :
                               \/ Score(h.versions[j]) < Score(h.versions[i])
                               \/ Score(h.versions[j]) = Score(h.versions[i]) /\ i <= j
         IN [h EXCEPT !.recommendedVersion = h.versions[best].version]

\* A variant of recalcRecommended that recommends the latest version whatever
\* the scores.
recalcRecommendedLatest(h) ==
    IF Len(h.versions) = 0 THEN h
    ELSE [h EXCEPT !.recommendedVersion = h.versions[Len(h.versions)].version]

\* recalcRecommended: the history with recommendedVersion recomputed.
recalcRecommended(h) ==
    IF Len(h.versions) = 0 THEN h
    ELSE LET looped == BestFrom(h.versions, 1, h.versions[1])
             best == IF Score(looped) = Undefined
                     THEN h.versions[Len(h.versions)]
                     ELSE looped
         IN [h EXCEPT !.recommendedVersion = best.version]

\* ------------------------------------------------------------------ storage

\* A variant of StringifyVersion that writes no score.
StringifyVersionNoScore(v) ==
    [version |-> v.version, content |-> v.content, source |-> v.source]

\* JSON.stringify of a version: a key whose value is undefined is left out.
StringifyVersion(v) ==
    IF Score(v) = Undefined
    THEN [version |-> v.version, content |-> v.content, source |-> v.source]
    ELSE v

\* JSON.stringify(this.store): what save writes.
Stringify(st) ==
    [id \in DOMAIN st |->
        [versions |-> [i \in 1..Len(st[id].versions) |-> StringifyVersion(st[id].versions[i])],
         recommendedVersion |-> st[id].recommendedVersion]]

\* A variant of save that writes only when there is no file yet.
saveOnce(st) == IF disk.exists THEN disk ELSE [exists |-> TRUE, json |-> Stringify(st)]

\* save(): the file after the write.
save(st) == [exists |-> TRUE, json |-> Stringify(st)]

\* load(): the parsed file when it exists, an empty store otherwise.
load(file) == IF file.exists THEN file.json ELSE <<>>

\* The number of versions in a store.
RECURSIVE TotalVersions(_, _)
TotalVersions(st, ids) ==
    IF ids = {} THEN 0
    ELSE LET id == CHOOSE x \in ids : TRUE
         IN (IF id \in DOMAIN st THEN Len(st[id].versions) ELSE 0)
            + TotalVersions(st, ids \ {id})

\* st with history h under id.
Put(st, id, h) == [x \in DOMAIN st \cup {id} |-> IF x = id THEN h ELSE st[x]]

\* delete this.store.histories[promptId]
Remove(st, id) == [x \in DOMAIN st \ {id} |-> st[x]]

\* ------------------------------------------------------------------ texts
\* A text is the sequence of the chunks it is concatenated from: the texts
\* of the callers and the literals the rules of OPTIMIZATION_RULES add.
\*   "role":        'You are an expert AI assistant.\n\n'
\*   "format":      '\n\nPlease structure your response clearly with appropriate formatting.'
\*   "constraints": '\n\nEnsure your response is accurate, well-structured, and complete.'
\*   "steps":       '\n\nPlease approach this step by step.'
\*   "edge":        '\n\nConsider edge cases and potential error scenarios in your response.'
\*   "examples":    '\n\nInclude concrete examples where applicable.'
\*   "header":      '## Task\n'
\* Every chunk ends or starts at a line break, and no pattern of the program
\* matches across a line break, so a pattern matches a text exactly when it
\* matches one of its chunks.

\* content.length of each chunk.
ChunkLength ==
    [bare |-> 22, rich |-> 40, plain |-> 54, full |-> 1072, review |-> 235,
     excellent |-> 688, lean |-> 107, terse |-> 47, stepwise |-> 119, brief |-> 48,
     role |-> 33, format |-> 69, constraints |-> 66,
     steps |-> 36, edge |-> 69, examples |-> 45, header |-> 8]

\* The line breaks in each chunk.
ChunkNewlines ==
    [bare |-> 0, rich |-> 0, plain |-> 0, full |-> 5, review |-> 6,
     excellent |-> 24, lean |-> 8, terse |-> 6, stepwise |-> 0, brief |-> 0,
     role |-> 2, format |-> 2, constraints |-> 2,
     steps |-> 2, edge |-> 2, examples |-> 2, header |-> 1]

\* The patterns each chunk matches.  Those of the rules' checks:
\*   "role"       /\b(you are|act as|your role|as a)\b/i
\*   "output"     /\b(output|format|return|respond with|response should)\b/i
\*   "constraint" /\b(must|should|ensure|always|never|required|do not)\b/i
\*   "step"       /\b(step|first|second|then|finally|next|1\.|2\.)\b/i
\*   "edge"       /\b(edge case|error|exception|handle|corner case|fallback)\b/i
\*   "example"    /\b(example|e\.g\.|for instance|such as|demonstrate)\b/i
\*   "heading"    /^#+\s/m            "bold"  /\*\*[^*]+\*\*/m
\* and those of heuristicScore:
\*   "h-struct"     /^#+\s|^##\s|\*\*[^*]+\*\*|^\d+\./m      "h-code"  /```/
\*   "h-seq"        /\b(step|first|second|then|finally|next)\b/i
\*   "h-constraint" /\b(must|should|ensure|always|never|required)\b/i
\*   "h-example"    /\b(example|e\.g\.|for instance|such as)\b/i
\*   "h-output"     /\b(output|format|return|result)\b/i
\*   "h-role"       /\b(you are|act as|your role|as a)\b/i
\*   "h-var"        /\{\{[^}]+\}\}/
\*   "h-edge"       /\b(edge case|error|exception|handle|fallback)\b/i
\* ('formatting' is no match of \bformat\b, 'examples' none of \bexample\b,
\* 'edge cases' none of \bedge case\b.)
ChunkMatches ==
    [bare |-> {},
     rich |-> {"role", "output", "constraint", "h-role", "h-output", "h-constraint"},
     plain |-> {"output", "constraint", "h-output", "h-constraint"},
     full |-> {"role", "output", "constraint", "step", "edge", "example", "heading",
               "h-struct", "h-code", "h-seq", "h-constraint", "h-example",
               "h-output", "h-role", "h-var", "h-edge"},
     review |-> {"role", "output", "constraint", "heading",
                 "h-struct", "h-code", "h-constraint", "h-output", "h-role"},
     excellent |-> {"role", "output", "constraint", "edge", "example", "heading",
                    "h-struct", "h-code", "h-constraint", "h-example", "h-output",
                    "h-role", "h-var", "h-edge"},
     lean |-> {"role", "constraint", "h-struct", "h-code", "h-constraint", "h-role"},
     terse |-> {"role", "constraint", "h-struct", "h-code", "h-constraint", "h-role"},
     stepwise |-> {"role", "constraint", "step", "h-code", "h-seq", "h-constraint",
                   "h-role"},
     brief |-> {"role", "constraint", "step", "h-code", "h-seq", "h-constraint",
                "h-role"},
     role |-> {"role", "h-role"},
     format |-> {},
     constraints |-> {"constraint", "h-constraint"},
     steps |-> {"step", "h-seq"},
     edge |-> {"edge", "h-edge"},
     examples |-> {},
     header |-> {"heading", "h-struct"}]

\* regex.test(text)
Matches(text, pattern) == \E i \in 1..Len(text) : pattern \in ChunkMatches[text[i]]

\* text.length
RECURSIVE TextLength(_)
TextLength(text) ==
    IF text = <<>> THEN 0 ELSE ChunkLength[Head(text)] + TextLength(Tail(text))

\* text.split('\n').length
RECURSIVE LineBreaks(_)
LineBreaks(text) ==
    IF text = <<>> THEN 0 ELSE ChunkNewlines[Head(text)] + LineBreaks(Tail(text))

LineCount(text) == LineBreaks(text) + 1

\* ------------------------------------------------------------------ rules

\* OPTIMIZATION_RULES, in declared order.
RuleNames ==
    <<"add-role-definition", "add-output-format", "add-constraints",
      "add-step-structure", "add-edge-cases", "add-examples-hint",
      "add-markdown-structure">>

\* rule.check(c)
RuleCheck(name, c) ==
    CASE name = "add-role-definition" -> ~Matches(c, "role")
      [] name = "add-output-format" -> ~Matches(c, "output")
      [] name = "add-constraints" -> ~Matches(c, "constraint")
      [] name = "add-step-structure" -> ~Matches(c, "step") /\ TextLength(c) > 100
      [] name = "add-edge-cases" -> ~Matches(c, "edge") /\ TextLength(c) > 150
      [] name = "add-examples-hint" -> ~Matches(c, "example") /\ TextLength(c) > 100
      [] name = "add-markdown-structure" ->
            TextLength(c) > 300 /\ ~Matches(c, "heading") /\ ~Matches(c, "bold")

\* A variant of RuleApply whose role rule returns its literal alone.
RuleApplyRoleAlone(name, c) ==
    CASE name = "add-role-definition" -> <<"role">>
      [] name = "add-output-format" -> c \o <<"format">>
      [] name = "add-constraints" -> c \o <<"constraints">>
      [] name = "add-step-structure" -> c \o <<"steps">>
      [] name = "add-edge-cases" -> c \o <<"edge">>
      [] name = "add-examples-hint" -> c \o <<"examples">>
      [] name = "add-markdown-structure" ->
            IF LineCount(c) > 5 THEN <<"header">> \o c ELSE c

\* rule.apply(c)
RuleApply(name, c) ==
    CASE name = "add-role-definition" -> <<"role">> \o c
      [] name = "add-output-format" -> c \o <<"format">>
      [] name = "add-constraints" -> c \o <<"constraints">>
      [] name = "add-step-structure" -> c \o <<"steps">>
      [] name = "add-edge-cases" -> c \o <<"edge">>
      [] name = "add-examples-hint" -> c \o <<"examples">>
      [] name = "add-markdown-structure" ->
            IF LineCount(c) > 5 THEN <<"header">> \o c ELSE c

\* The loop of optimizeWithRules from rule k on.
RECURSIVE ApplyRulesFrom(_, _)
ApplyRulesFrom(optimized, k) ==
    IF k > Len(RuleNames) THEN optimized
    ELSE IF RuleCheck(RuleNames[k], optimized)
         THEN ApplyRulesFrom(RuleApply(RuleNames[k], optimized), k + 1)
         ELSE ApplyRulesFrom(optimized, k + 1)

\* optimizeWithRules(content, references): the references are not read.
optimizeWithRules(content) == ApplyRulesFrom(content, 1)

Min(a, b) == IF a < b THEN a ELSE b
Max(a, b) == IF a > b THEN a ELSE b
Abs(a) == IF a < 0 THEN -a ELSE a

\* ------------------------------------------------------------------ retriever
\* For the retriever a text is the sequence of the words that white space
\* separates in it.

\* word.toLowerCase().replace(/[^a-z0-9\s]/g, '') for each word of the inputs.
WordToken ==
    ("Write" :> "write") @@ ("write" :> "write") @@ ("code" :> "code")
    @@ ("Code!" :> "code") @@ ("Fix" :> "fix") @@ ("the" :> "the") @@ ("bug" :> "bug")
    @@ ("e.g." :> "eg") @@ ("Review" :> "review") @@ ("poems" :> "poems")
    @@ ("Coder" :> "coder") @@ ("Poet" :> "poet") @@ ("Chef" :> "chef")
    @@ ("cook" :> "cook") @@ ("food" :> "food") @@ ("--" :> "")

\* new Set(text.toLowerCase().replace(...).split(/\s+/).filter(w => w.length > 3))
Tokenize(text) ==
    {w \in {WordToken[text[i]] : i \in 1..Len(text)} : Len(w) > 3}

\* `${p.title} ${p.content}`
TitleAndContent(p) == p.title \o p.content

\* The records of the corpus: title and content.
Coder == [title |-> <<"Coder">>, content |-> <<"write", "code">>]
Reviewer == [title |-> <<"Review">>, content |-> <<"Code!", "e.g.", "the", "bug">>]
Poet == [title |-> <<"Poet">>, content |-> <<"Write", "poems">>]
Chef == [title |-> <<"Chef">>, content |-> <<"cook", "food">>]
ReferenceRecords == {Coder, Reviewer, Poet, Chef}

\* The queries: the empty string, one without a word longer than three
\* characters, and two with such words.
Queries ==
    {<<>>, <<"Fix", "the", "bug">>, <<"Write", "code">>, <<"Review", "--", "Code!", "poems">>}

\* threshold, in tenths.
Thresholds == {0, 1, 5, 10}

\* scored: for each record of the corpus, the record and its overlap with the
\* words of the query.  (similarity is overlap / userWords.size.)
Scored(userWords, openSourcePrompts) ==
    [i \in 1..Len(openSourcePrompts) |->
        [prompt |-> openSourcePrompts[i],
         overlap |-> Cardinality(userWords \cap Tokenize(TitleAndContent(openSourcePrompts[i])))]]

\* A variant of SortBySimilarity that puts a record in front of its equals.
RECURSIVE SortBySimilarityUnstable(_)
SortBySimilarityUnstable(scored) ==
    IF scored = <<>> THEN <<>>
    ELSE LET n == Len(scored)
             front == SortBySimilarityUnstable(SubSeq(scored, 1, n - 1))
             x == scored[n]
             ahead == {k \in 1..Len(front) : front[k].overlap > x.overlap}
         IN SubSeq(front, 1, Cardinality(ahead)) \o <<x>>
              \o SubSeq(front, Cardinality(ahead) + 1, Len(front))

\* .sort((a, b) => b.similarity - a.similarity): Array.prototype.sort is
\* stable, so a record goes behind those of the same similarity that came
\* before it.
RECURSIVE SortBySimilarity(_)
SortBySimilarity(scored) ==
    IF scored = <<>> THEN <<>>
    ELSE LET n == Len(scored)
             front == SortBySimilarity(SubSeq(scored, 1, n - 1))
             x == scored[n]
             ahead == {k \in 1..Len(front) : front[k].overlap >= x.overlap}
         IN SubSeq(front, 1, Cardinality(ahead)) \o <<x>>
              \o SubSeq(front, Cardinality(ahead) + 1, Len(front))

\* findSimilarPrompts(userPrompt, openSourcePrompts, maxResults, threshold):
\* the list returned, and openSourcePrompts as the call leaves it (map and
\* filter build new arrays; sort works on the array filter built).
findSimilarPrompts(userPrompt, openSourcePrompts, maxResults, threshold) ==
    LET userWords == Tokenize(userPrompt)
        size == Cardinality(userWords)
        scored == Scored(userWords, openSourcePrompts)
        AtLeastThreshold(x) == 10 * x.overlap >= threshold * size
        sorted == SortBySimilarity(SelectSeq(scored, AtLeastThreshold))
        sliced == SubSeq(sorted, 1, Min(maxResults, Len(sorted)))
    IN IF size = 0
       THEN [ret |-> <<>>, openSourcePrompts |-> openSourcePrompts]
       ELSE [ret |-> [k \in 1..Len(sliced) |-> sliced[k].prompt],
             openSourcePrompts |-> openSourcePrompts]

\* ------------------------------------------------------------------ judge

\* A variant of heuristicScore without the penalty for a very short text.
heuristicScoreNoPenalty(content) ==
    LET len == TextLength(content)
        Add(cond, n) == IF cond THEN n ELSE 0
    IN Min(50, 15 + Add(len > 200, 3) + Add(len > 500, 3) + Add(len > 1000, 3)
                  + Add(Matches(content, "h-struct"), 5)
                  + Add(Matches(content, "h-code"), 3)
                  + Add(Matches(content, "h-seq"), 3)
                  + Add(Matches(content, "h-constraint"), 4)
                  + Add(Matches(content, "h-example"), 3)
                  + Add(Matches(content, "h-output"), 3)
                  + Add(Matches(content, "h-role"), 3)
                  + Add(Matches(content, "h-var"), 2)
                  + Add(Matches(content, "h-edge"), 2))

\* A variant of heuristicScore without the cap at 5.
heuristicScoreUncapped(content) ==
    LET len == TextLength(content)
        Add(cond, n) == IF cond THEN n ELSE 0
    IN 15 + Add(len > 200, 3) + Add(len > 500, 3) + Add(len > 1000, 3)
          - Add(len < 50, 3)
          + Add(Matches(content, "h-struct"), 5)
          + Add(Matches(content, "h-code"), 3)
          + Add(Matches(content, "h-seq"), 3)
          + Add(Matches(content, "h-constraint"), 4)
          + Add(Matches(content, "h-example"), 3)
          + Add(Matches(content, "h-output"), 3)
          + Add(Matches(content, "h-role"), 3)
          + Add(Matches(content, "h-var"), 2)
          + Add(Matches(content, "h-edge"), 2)

\* heuristicScore(content).score, in tenths.
heuristicScore(content) ==
    LET len == TextLength(content)
        Add(cond, n) == IF cond THEN n ELSE 0
        score == 15
            + Add(len > 200, 3) + Add(len > 500, 3) + Add(len > 1000, 3)
            - Add(len < 50, 3)
            + Add(Matches(content, "h-struct"), 5)
            + Add(Matches(content, "h-code"), 3)
            + Add(Matches(content, "h-seq"), 3)
            + Add(Matches(content, "h-constraint"), 4)
            + Add(Matches(content, "h-example"), 3)
            + Add(Matches(content, "h-output"), 3)
            + Add(Matches(content, "h-role"), 3)
            + Add(Matches(content, "h-var"), 2)
            + Add(Matches(content, "h-edge"), 2)
    IN Min(50, score)

\* A reply of the model is a sequence of tokens: the marker "[RESULT]", the
\* marker in lower case "[result]", a digit, a letter A or B in either case,
\* or "text" for anything else.  White space between tokens is not kept.
DigitValue ==
    [d \in {"0", "1", "2", "3", "4", "5", "6", "7", "8", "9"} |->
        CASE d = "0" -> 0 [] d = "1" -> 1 [] d = "2" -> 2 [] d = "3" -> 3 [] d = "4" -> 4
          [] d = "5" -> 5 [] d = "6" -> 6 [] d = "7" -> 7 [] d = "8" -> 8 [] d = "9" -> 9]

\* output.match(/\[RESULT\]\s*(\d)/): the index of the digit matched first, 0 if none.
ResultDigitAt(output) ==
    LET hits == {i \in 2..Len(output) :
                    output[i - 1] = "[RESULT]" /\ output[i] \in DOMAIN DigitValue}
    IN IF hits = {} THEN 0 ELSE CHOOSE i \in hits : \A j \in hits : i <= j

\* A variant of parseLLMJudgeOutput that does not clamp the digit.
parseLLMJudgeOutputUnclamped(output) ==
    LET i == ResultDigitAt(output)
    IN IF i = 0 THEN 30 ELSE 10 * DigitValue[output[i]]

\* parseLLMJudgeOutput(output).score, in tenths.
parseLLMJudgeOutput(output) ==
    LET i == ResultDigitAt(output)
    IN IF i = 0 THEN 30 ELSE 10 * Min(5, Max(1, DigitValue[output[i]]))

\* output.match(/\[RESULT\]\s*(A|B)/i): the index of the letter matched first, 0 if none.
\* The flag i makes the marker match in either case as well.
ResultLetterAt(output) ==
    LET hits == {i \in 2..Len(output) :
                    /\ output[i - 1] \in {"[RESULT]", "[result]"}
                    /\ output[i] \in {"A", "B", "a", "b"}}
    IN IF hits = {} THEN 0 ELSE CHOOSE i \in hits : \A j \in hits : i <= j

\* A variant of parseLLMCompareOutput that takes the marker found last.
parseLLMCompareOutputLast(output) ==
    LET hits == {i \in 2..Len(output) :
                    /\ output[i - 1] \in {"[RESULT]", "[result]"}
                    /\ output[i] \in {"A", "B", "a", "b"}}
    IN IF hits = {} THEN "B"
       ELSE LET i == CHOOSE k \in hits : \A j \in hits : k >= j
            IN IF output[i] \in {"A", "a"} THEN "A" ELSE "B"

\* parseLLMCompareOutput(output).winner
parseLLMCompareOutput(output) ==
    LET i == ResultLetterAt(output)
    IN IF i = 0 THEN "B"
       ELSE IF output[i] \in {"A", "a"} THEN "A" ELSE "B"

\* The replies callLLM may resolve with, to a scoring and to a comparing prompt.
ScoreReplies == {<<"text", "[RESULT]", "4">>}
CompareReplies == {<<"text", "[RESULT]", "A">>, <<"text", "[RESULT]", "B">>}

\* llmAvailable after "if (this.llmAvailable === null) await this.checkAvailability()":
\* the probe sets it to true or to false.
AfterProbe(avail) == IF avail = "null" THEN {"true", "false"} ELSE {avail}

\* The ways scorePrompt(content) may return: callLLM resolves with a reply, or
\* rejects and heuristicScore answers.
scorePrompt(avail, content) ==
    LET heuristic(a) == [avail |-> a, score |-> heuristicScore(content), method |-> "heuristic"]
    IN UNION {
         IF a = "true"
         THEN {[avail |-> a, score |-> parseLLMJudgeOutput(r), method |-> "llm"] :
                  r \in ScoreReplies} \cup {heuristic(a)}
         ELSE {heuristic(a)} : a \in AfterProbe(avail) }

\* The ways compareVersions(contentA, contentB) may return.
compareVersions(avail, contentA, contentB) ==
    LET heuristic(a) ==
            [avail |-> a, method |-> "heuristic",
             winner |-> IF heuristicScore(contentB) >= heuristicScore(contentA)
                        THEN "B" ELSE "A"]
    IN UNION {
         IF a = "true"
         THEN {[avail |-> a, winner |-> parseLLMCompareOutput(r), method |-> "llm"] :
                  r \in CompareReplies} \cup {heuristic(a)}
         ELSE {heuristic(a)} : a \in AfterProbe(avail) }

\* ------------------------------------------------------------------ optimizer

\* The OptimizationResult of optimizePrompt, given what the judge answered.
OptimizationResult(content, optimizedContent, originalResult, optimizedResult, improved) ==
    [originalContent |-> content,
     optimizedContent |-> optimizedContent,
     originalScore |-> originalResult.score,
     optimizedScore |-> optimizedResult.score,
     improved |-> improved,
     method |-> originalResult.method]

\* Math.abs(b - a) < 0.5 on the scores of the program, which are the doubles
\* nearest a/10 and b/10.  The subtraction of two doubles this close is exact,
\* so the test says whether the two doubles are less than 0.5 apart: they are
\* when the tenths are less than 5 apart, and for 1.8 with 2.3 and 3.6 with
\* 4.1, whose doubles are nearer to each other than the decimals they stand
\* for (4.1 - 3.6 is 0.49999999999999956).
LessThanHalfApart(a, b) ==
    Abs(b - a) < 5 \/ ({a, b} \in {{18, 23}, {36, 41}})

\* A variant of ScoresAreClose that does not look at the texts.
ScoresAreCloseIgnoringText(content, optimizedContent, originalScore, optimizedScore) ==
    LessThanHalfApart(originalScore, optimizedScore)

\* A variant of ScoresAreClose whose test is <= 0.5.
ScoresAreCloseInclusive(content, optimizedContent, originalScore, optimizedScore) ==
    Abs(optimizedScore - originalScore) <= 5 /\ optimizedContent # content

\* "Compare if scores are close": whether optimizePrompt calls compareVersions.
ScoresAreClose(content, optimizedContent, originalScore, optimizedScore) ==
    LessThanHalfApart(originalScore, optimizedScore) /\ optimizedContent # content

\* The ways optimizePrompt(content) may return: the result, llmAvailable as
\* its judge calls leave it, and the winner compareVersions named ("none"
\* when it was not called).
optimizePrompt(avail, content) ==
    LET optimizedContent == optimizeWithRules(content)
        Decide(o, c) ==
            IF ScoresAreClose(content, optimizedContent, o.score, c.score)
            THEN {[avail |-> cmp.avail, winner |-> cmp.winner,
                   result |-> OptimizationResult(content, optimizedContent, o, c,
                                                 cmp.winner = "B")] :
                     cmp \in compareVersions(c.avail, content, optimizedContent)}
            ELSE {[avail |-> c.avail, winner |-> "none",
                   result |-> OptimizationResult(content, optimizedContent, o, c,
                                                 c.score > o.score)]}
    IN UNION { UNION { Decide(o, c) : c \in scorePrompt(o.avail, optimizedContent) } :
                 o \in scorePrompt(avail, content) }

\* ------------------------------------------------------------------ ledger
\* Each operation of VersionManager as the store it leaves and the value it
\* returns; the actions below add the write to the file.

\* The history initHistory creates.
NewHistory(content, source) ==
    [versions |-> <<FirstVersion(content, source)>>, recommendedVersion |-> 1]

\* A variant of initHistoryStore that starts the history over.
initHistoryStoreOverwrite(st, id, content, source) ==
    Put(st, id, NewHistory(content, source))

\* The store after initHistory.
initHistoryStore(st, id, content, source) ==
    IF id \in DOMAIN st THEN st ELSE Put(st, id, NewHistory(content, source))

\* The version addVersion builds for a history.
NewVersion(history, content, source, judgeScore) ==
    [version |-> NextVersion(history.versions), content |-> content,
     source |-> source, judgeScore |-> judgeScore]

\* A variant of addVersionStore that writes over the latest version.
addVersionStoreReplace(st, id, content, source, judgeScore) ==
    IF id \notin DOMAIN st THEN st
    ELSE LET history == st[id]
             n == Len(history.versions)
             ver == [version |-> n, content |-> content, source |-> source,
                     judgeScore |-> judgeScore]
             put == [history EXCEPT !.versions[n] = ver]
         IN Put(st, id, recalcRecommended(put))

\* A variant of addVersionStore that opens a history for an unknown identifier.
addVersionStoreCreate(st, id, content, source, judgeScore) ==
    LET history == IF id \in DOMAIN st THEN st[id]
                   ELSE [versions |-> <<>>, recommendedVersion |-> 1]
        ver == NewVersion(history, content, source, judgeScore)
        pushed == [history EXCEPT !.versions = Append(history.versions, ver)]
    IN Put(st, id, recalcRecommended(pushed))

\* The store after addVersion: push, then recalcRecommended.
addVersionStore(st, id, content, source, judgeScore) ==
    IF id \notin DOMAIN st THEN st
    ELSE LET history == st[id]
             ver == NewVersion(history, content, source, judgeScore)
             pushed == [history EXCEPT !.versions = Append(history.versions, ver)]
         IN Put(st, id, recalcRecommended(pushed))

\* Whether setScore finds the version it is to score.
setScoreFinds(st, id, version) ==
    id \in DOMAIN st /\ FindVersion(st[id].versions, version) # 0

\* The store after setScore: the score written, then recalcRecommended.
setScoreStore(st, id, version, score) ==
    IF ~setScoreFinds(st, id, version) THEN st
    ELSE LET history == st[id]
             i == FindVersion(history.versions, version)
             scored == [history EXCEPT
                          !.versions[i] = WithScore(history.versions[i], score)]
         IN Put(st, id, recalcRecommended(scored))

\* A variant of didImproveResult that counts an equal score as an improvement.
didImproveResultOrEqual(st, id) ==
    IF id \notin DOMAIN st \/ Len(st[id].versions) < 2 THEN FALSE
    ELSE LET h == st[id]
             latest == h.versions[Len(h.versions)]
             prev == h.versions[Len(h.versions) - 1]
         IN IF Score(latest) # Undefined /\ Score(prev) # Undefined
            THEN Score(latest) >= Score(prev)
            ELSE FALSE

\* The value didImprove returns on a store.
didImproveResult(st, id) ==
    IF id \notin DOMAIN st \/ Len(st[id].versions) < 2 THEN FALSE
    ELSE LET h == st[id]
             latest == h.versions[Len(h.versions)]
             prev == h.versions[Len(h.versions) - 1]
         IN IF Score(latest) # Undefined /\ Score(prev) # Undefined
            THEN Score(latest) > Score(prev)
            ELSE FALSE

\* ------------------------------------------------------------------ controller state

\* crawlTimer / optimizeTimer = null: no handle of setInterval, which are positive.
NoTimer == 0

\* DEFAULT_SCHEDULER_CONFIG, without the two intervals.
DEFAULT_SCHEDULER_CONFIG ==
    [enabled |-> TRUE, minUsageForOptimize |-> 2, maxOptimizePerCycle |-> 10]

\* The configurations the controller is built with: the defaults, those of
\* the tests (minUsageForOptimize 1 with maxOptimizePerCycle 2 and 1), and a
\* controller that is not enabled.
SchedulerConfigs ==
    {DEFAULT_SCHEDULER_CONFIG,
     [enabled |-> TRUE, minUsageForOptimize |-> 1, maxOptimizePerCycle |-> 2],
     [enabled |-> TRUE, minUsageForOptimize |-> 1, maxOptimizePerCycle |-> 1],
     [enabled |-> FALSE, minUsageForOptimize |-> 1, maxOptimizePerCycle |-> 2]}

\* getPromptsFn = null.
NoProvider == [kind |-> "null"]

\* The PromptOptimizer after its constructor: the corpus cache is empty.
NewOptimizer == [cachedOpenSourcePrompts |-> <<>>, lastCrawlTime |-> 0]

\* The UpdateScheduler after its constructor, with the optimizer it was given.
NewScheduler(config) ==
    [config |-> config,
     optimizer |-> NewOptimizer,
     crawlTimer |-> NoTimer,
     optimizeTimer |-> NoTimer,
     listeners |-> <<>>,
     running |-> FALSE,
     crawlCount |-> 0,
     optimizeCount |-> 0,
     lastCrawl |-> 0,
     lastOptimize |-> 0,
     versionManager |-> "null",
     getPromptsFn |-> NoProvider]

\* The cycles in flight that are followed: one crawl cycle, one optimize
\* cycle, and a second optimize cycle that overlaps the first (the timer
\* firing while a call by hand is in flight); without one the slot holds NoCycle.
Slots == {"crawl", "optimize", "racing"}
NoCycle == [kind |-> "idle"]

\* Room for one more version under the bound of the model.
HasRoom(st) == TotalVersions(st, Ids) < MaxTotalVersions

Init ==
    /\ disk = [exists |-> FALSE, json |-> <<>>]
    /\ store = load(disk)
    /\ last = [op |-> "new"]
    /\ llmAvailable = "null"
    /\ opt = [pc |-> "idle"]
    /\ calls = [t \in Tasks |-> [pc |-> "idle"]]
    /\ hist = [probes |-> 0, probeFailed |-> FALSE, callFailed |-> FALSE]
    /\ sched = NewScheduler(DEFAULT_SCHEDULER_CONFIG)
    /\ cycles = [k \in Slots |-> NoCycle]
    /\ runtime = [intervals |-> {}, now |-> 1]

\* new VersionManager(storagePath) on the same file: the store is loaded again.
Reload ==
    /\ store' = load(disk)
    /\ last' = [op |-> "new"]
    /\ UNCHANGED disk

initHistory(id, content, source) ==
    LET st == initHistoryStore(store, id, content, source)
    IN /\ id \notin DOMAIN store => HasRoom(store)
       /\ store' = st
       /\ disk' = IF id \in DOMAIN store THEN disk ELSE save(st)
       /\ last' = [op |-> "initHistory", id |-> id, content |-> content,
                   ret |-> <<st[id]>>]

addVersion(id, content, source, judgeScore) ==
    LET st == addVersionStore(store, id, content, source, judgeScore)
    IN /\ id \in DOMAIN store => HasRoom(store)
       /\ store' = st
       /\ disk' = IF id \in DOMAIN store THEN save(st) ELSE disk
       /\ last' = [op |-> "addVersion", id |-> id,
                   ret |-> IF id \in DOMAIN store
                           THEN <<NewVersion(store[id], content, source, judgeScore)>>
                           ELSE <<>>]

setScore(id, version, score) ==
    LET st == setScoreStore(store, id, version, score)
    IN /\ store' = st
       /\ disk' = IF setScoreFinds(store, id, version) THEN save(st) ELSE disk
       /\ last' = IF setScoreFinds(store, id, version)
                  THEN [op |-> "setScore", id |-> id, version |-> version,
                        score |-> score, ret |-> TRUE]
                  ELSE [op |-> "setScore", id |-> id, version |-> version,
                        ret |-> FALSE]

\* A variant of deleteHistory that does not write the file.
deleteHistoryUnsaved(id) ==
    IF id \notin DOMAIN store
    THEN /\ last' = [op |-> "deleteHistory", id |-> id, ret |-> FALSE]
         /\ UNCHANGED <<store, disk>>
    ELSE /\ store' = Remove(store, id)
         /\ last' = [op |-> "deleteHistory", id |-> id, ret |-> TRUE]
         /\ UNCHANGED disk

deleteHistory(id) ==
    IF id \notin DOMAIN store
    THEN /\ last' = [op |-> "deleteHistory", id |-> id, ret |-> FALSE]
         /\ UNCHANGED <<store, disk>>
    ELSE LET st == Remove(store, id)
         IN /\ store' = st
            /\ disk' = save(st)
            /\ last' = [op |-> "deleteHistory", id |-> id, ret |-> TRUE]

didImprove(id) ==
    /\ last' = [op |-> "didImprove", id |-> id, ret |-> didImproveResult(store, id)]
    /\ UNCHANGED <<store, disk>>

\* The ordinals a caller may name.
Ordinals == 1..MaxTotalVersions

\* A call on the ledger from outside the optimizer.
LedgerCall ==
    \/ Reload
    \/ \E id \in Ids, c \in UserTexts : initHistory(id, c, "manual")
    \/ \E id \in Ids, c \in AppendTexts, src \in AppendSources,
          s \in ScoreInputs \cup {Undefined} : addVersion(id, c, src, s)
    \/ \E id \in Ids, n \in Ordinals, s \in ScoreInputs : setScore(id, n, s)
    \/ \E id \in Ids : deleteHistory(id)
    \/ \E id \in Ids : didImprove(id)

Next == LedgerCall /\ UNCHANGED <<llmAvailable, opt, calls, hist, sched, cycles, runtime>>

Spec == Init /\ [][Next]_vars

\* history.versions.find(v => v.content === content): the index found, 0 if none.
FindContent(versions, content) ==
    IF \E i \in 1..Len(versions) : versions[i].content = content
    THEN CHOOSE i \in 1..Len(versions) :
            /\ versions[i].content = content
            /\ \A j \in 1..(i - 1) : versions[j].content # content
    ELSE 0

\* A variant of Backfill that scores the matching version whether or not it
\* already has a score.
BackfillOverwrites(st, id, content, originalScore) ==
    IF id \notin DOMAIN st THEN st
    ELSE LET i == FindContent(st[id].versions, content)
         IN IF i # 0
            THEN setScoreStore(st, id, st[id].versions[i].version, originalScore)
            ELSE st

\* "Also score the original if it hasn't been scored", on the store addVersion left.
Backfill(st, id, content, originalScore) ==
    IF id \notin DOMAIN st THEN st
    ELSE LET i == FindContent(st[id].versions, content)
         IN IF i # 0 /\ Score(st[id].versions[i]) = Undefined
            THEN setScoreStore(st, id, st[id].versions[i].version, originalScore)
            ELSE st

\* A variant of optimizeAndVersionStore that commits whatever the decision.
optimizeAndVersionStoreAlways(st, id, content, result) ==
    Backfill(addVersionStore(st, id, result.optimizedContent, "auto-optimize",
                             result.optimizedScore),
             id, content, result.originalScore)

\* The store optimizeAndVersion leaves once optimizePrompt has returned result.
optimizeAndVersionStore(st, id, content, result) ==
    IF result.improved
    THEN Backfill(addVersionStore(st, id, result.optimizedContent, "auto-optimize",
                                  result.optimizedScore),
                  id, content, result.originalScore)
    ELSE st

\* optimizeAndVersion(promptId, content, versionManager) up to its await.
optimizeAndVersionCall(id, content) ==
    /\ opt.pc = "idle"
    /\ opt' = [pc |-> "await", id |-> id, content |-> content]
    /\ UNCHANGED <<store, disk, last, llmAvailable, calls, hist, sched, cycles, runtime>>

\* optimizePrompt returns and optimizeAndVersion runs to its end.
optimizeAndVersionReturn ==
    /\ opt.pc = "await"
    /\ \E out \in optimizePrompt(llmAvailable, opt.content) :
          LET st == optimizeAndVersionStore(store, opt.id, opt.content, out.result)
              saved == out.result.improved /\ opt.id \in DOMAIN store
          IN /\ saved => HasRoom(store)
             /\ llmAvailable' = out.avail
             /\ store' = st
             /\ disk' = IF saved THEN save(st) ELSE disk
             /\ last' = [op |-> "optimizeAndVersion", id |-> opt.id,
                         content |-> opt.content, ret |-> out.result]
    /\ opt' = [pc |-> "idle"]
    /\ UNCHANGED <<calls, hist, sched, cycles, runtime>>

\* The ledger calls the optimizer's callers make beside it.
NextOpt ==
    \/ (\E id \in Ids, c \in UserTexts : initHistory(id, c, "manual"))
          /\ UNCHANGED <<llmAvailable, opt, calls, hist, sched, cycles, runtime>>
    \/ (\E id \in Ids : setScore(id, 1, 40))
          /\ UNCHANGED <<llmAvailable, opt, calls, hist, sched, cycles, runtime>>
    \/ (\E id \in Ids : deleteHistory(id))
          /\ UNCHANGED <<llmAvailable, opt, calls, hist, sched, cycles, runtime>>
    \/ \E id \in Ids, c \in UserTexts : optimizeAndVersionCall(id, c)
    \/ optimizeAndVersionReturn

SpecOpt == Init /\ [][NextOpt]_vars

\* ------------------------------------------------------------------ optimizePrompt alone

\* optimizePrompt(content) up to its first await.
optimizePromptCall(content) ==
    /\ opt.pc = "idle"
    /\ opt' = [pc |-> "optimize", content |-> content]
    /\ UNCHANGED <<store, disk, last, llmAvailable, calls, hist, sched, cycles, runtime>>

\* optimizePrompt returns its result.
optimizePromptReturn ==
    /\ opt.pc = "optimize"
    /\ \E out \in optimizePrompt(llmAvailable, opt.content) :
          /\ llmAvailable' = out.avail
          /\ last' = [op |-> "optimizePrompt", content |-> opt.content,
                      winner |-> out.winner, ret |-> out.result]
    /\ opt' = [pc |-> "idle"]
    /\ UNCHANGED <<store, disk, calls, hist, sched, cycles, runtime>>

NextOptimize ==
    \/ \E c \in Prompts : optimizePromptCall(c)
    \/ optimizePromptReturn

SpecOptimize == Init /\ [][NextOptimize]_vars

\* ------------------------------------------------------------------ the judge, step by step
\* scorePrompt and compareVersions are async: a call runs to its first await,
\* and other calls on the same judge may start before it goes on.

\* What the callers ask of the judge.
JudgeRequests ==
    {[op |-> "scorePrompt", content |-> c] : c \in {Bare, Full}}
    \cup {[op |-> "compareVersions", contentA |-> Bare, contentB |-> Plain],
          [op |-> "compareVersions", contentA |-> Plain, contentB |-> Bare]}

\* The replies callLLM may resolve with in these calls.
RemoteReplies(req) ==
    IF req.op = "scorePrompt"
    THEN ScoreReplies \cup {<<"text", "[RESULT]", "9">>, <<"text", "[RESULT]", "0">>, <<"text">>}
    ELSE CompareReplies \cup {<<"text">>}

\* All of them.
AllRemoteReplies == UNION {RemoteReplies(req) : req \in JudgeRequests}

\* "Fallback to heuristic" / "Heuristic comparison": the result of the
\* deterministic path.
JudgeFallback(req) ==
    IF req.op = "scorePrompt"
    THEN [score |-> heuristicScore(req.content), method |-> "heuristic"]
    ELSE [winner |-> IF heuristicScore(req.contentB) >= heuristicScore(req.contentA)
                     THEN "B" ELSE "A",
          method |-> "heuristic"]

\* A variant of AfterReject that lets the error of the remote call through.
AfterRejectThrows(req) == [error |-> "LLM judge failed"]

\* What a call returns whose remote call was rejected: the catch swallows the
\* error and the deterministic path answers.
AfterReject(req) == JudgeFallback(req)

\* The result of the remote path, from the reply callLLM resolved with.
JudgeParsed(req, reply) ==
    IF req.op = "scorePrompt"
    THEN [score |-> parseLLMJudgeOutput(reply), method |-> "llm"]
    ELSE [winner |-> parseLLMCompareOutput(reply), method |-> "llm"]

\* The call of task t returns ret, having gone the way path.
JudgeReturns(t, req, path, ret) ==
    last' = [op |-> req.op, task |-> t, path |-> path, ret |-> ret]

\* scorePrompt / compareVersions up to the first await: the probe when
\* llmAvailable is null, the remote call when it is true; the whole
\* deterministic path when it is false.
JudgeCall(t, req) ==
    /\ calls[t].pc = "idle"
    /\ CASE llmAvailable = "null" ->
              /\ calls' = [calls EXCEPT ![t] = [pc |-> "probe", req |-> req]]
              /\ hist' = [hist EXCEPT !.probes = @ + 1]
              /\ UNCHANGED last
         [] llmAvailable = "true" ->
              /\ calls' = [calls EXCEPT ![t] = [pc |-> "remote", req |-> req]]
              /\ UNCHANGED <<hist, last>>
         [] llmAvailable = "false" ->
              /\ JudgeReturns(t, req, "unavailable", JudgeFallback(req))
              /\ UNCHANGED <<calls, hist>>
    /\ UNCHANGED <<store, disk, llmAvailable, opt, sched, cycles, runtime>>

\* The request of checkAvailability settles: llmAvailable is set, and the call
\* goes on to the remote call or to the deterministic path.
checkAvailabilitySettles(t, ok) ==
    /\ calls[t].pc = "probe"
    /\ IF ok
       THEN /\ llmAvailable' = "true"
            /\ calls' = [calls EXCEPT ![t].pc = "remote"]
            /\ UNCHANGED <<hist, last>>
       ELSE /\ llmAvailable' = "false"
            /\ hist' = [hist EXCEPT !.probeFailed = TRUE]
            /\ JudgeReturns(t, calls[t].req, "probe-failed", JudgeFallback(calls[t].req))
            /\ calls' = [calls EXCEPT ![t] = [pc |-> "idle"]]
    /\ UNCHANGED <<store, disk, opt, sched, cycles, runtime>>

\* callLLM resolves with a reply, which is parsed and returned.
callLLMResolves(t, reply) ==
    /\ calls[t].pc = "remote"
    /\ reply \in RemoteReplies(calls[t].req)
    /\ JudgeReturns(t, calls[t].req, "llm", JudgeParsed(calls[t].req, reply))
    /\ calls' = [calls EXCEPT ![t] = [pc |-> "idle"]]
    /\ UNCHANGED <<store, disk, llmAvailable, opt, hist, sched, cycles, runtime>>

\* callLLM rejects (network error, timeout, a body that is no JSON): the catch,
\* then the deterministic path.  llmAvailable is left as it is.
callLLMRejects(t) ==
    /\ calls[t].pc = "remote"
    /\ JudgeReturns(t, calls[t].req, "call-failed", AfterReject(calls[t].req))
    /\ calls' = [calls EXCEPT ![t] = [pc |-> "idle"]]
    /\ hist' = [hist EXCEPT !.callFailed = TRUE]
    /\ UNCHANGED <<store, disk, llmAvailable, opt, sched, cycles, runtime>>

\* A step of the call of task t that is in flight.
JudgeSettles(t) ==
    \/ \E ok \in BOOLEAN : checkAvailabilitySettles(t, ok)
    \/ \E reply \in AllRemoteReplies : callLLMResolves(t, reply)
    \/ callLLMRejects(t)

NextJudge ==
    \/ \E t \in Tasks, req \in JudgeRequests : JudgeCall(t, req)
    \/ \E t \in Tasks, ok \in BOOLEAN : checkAvailabilitySettles(t, ok)
    \/ \E t \in Tasks, reply \in AllRemoteReplies : callLLMResolves(t, reply)
    \/ \E t \in Tasks : callLLMRejects(t)

SpecJudge == Init /\ [][NextJudge]_vars

\* ------------------------------------------------------------------ the pure functions

\* The tokens of a reply; a reply has at most MaxReplyTokens of them.
\* Of the digits, those at the ends of the scale and next to them.
Tokens ==
    {"text", "[RESULT]", "[result]", "A", "B", "a", "b", "0", "1", "4", "5", "6", "9"}

\* The texts rules k, k+1, ... of the catalogue leave when any of them is
\* applied, in the catalogue's order, to one of texts.
RECURSIVE AfterAnySubset(_, _)
AfterAnySubset(texts, k) ==
    IF k > Len(RuleNames) THEN texts
    ELSE AfterAnySubset(texts \cup {RuleApply(RuleNames[k], t) : t \in texts}, k + 1)

\* The texts handed to the rules: the prompts, bare or after some of the rules.
RuleTexts == AfterAnySubset(Prompts, 1)

\* The calls on the pure functions: the function and its argument.
PureCall(call) ==
    \/ \E k \in 1..Len(RuleNames), c \in RuleTexts :
          call = [pc |-> "call", fn |-> "apply", rule |-> RuleNames[k], arg |-> c]
    \/ \E c \in RuleTexts :
          call = [pc |-> "call", fn |-> "optimizeWithRules", arg |-> c]
    \/ \E c \in RuleTexts \cup StructuredTexts :
          call = [pc |-> "call", fn |-> "heuristicScore", arg |-> c]
    \/ \E n \in 0..MaxReplyTokens : \E output \in [1..n -> Tokens] :
          call = [pc |-> "call", fn |-> "parseLLMJudgeOutput", arg |-> output]
    \/ \E n \in 0..MaxReplyTokens : \E output \in [1..n -> Tokens] :
          call = [pc |-> "call", fn |-> "parseLLMCompareOutput", arg |-> output]
    \/ \E q \in Queries, n \in 0..MaxCorpus, maxResults \in 0..MaxCorpus, th \in Thresholds :
          \E corpus \in [1..n -> ReferenceRecords] :
             call = [pc |-> "call", fn |-> "findSimilarPrompts",
                     arg |-> [userPrompt |-> q, openSourcePrompts |-> corpus,
                              maxResults |-> maxResults, threshold |-> th]]

\* One call is about to be made.
InitPure ==
    /\ disk = [exists |-> FALSE, json |-> <<>>]
    /\ store = load(disk)
    /\ last = [op |-> "new"]
    /\ llmAvailable = "null"
    /\ PureCall(opt)
    /\ calls = [t \in Tasks |-> [pc |-> "idle"]]
    /\ hist = [probes |-> 0, probeFailed |-> FALSE, callFailed |-> FALSE]
    /\ sched = NewScheduler(DEFAULT_SCHEDULER_CONFIG)
    /\ cycles = [k \in Slots |-> NoCycle]
    /\ runtime = [intervals |-> {}, now |-> 1]

\* The call returns: last holds the function, its argument and its result.
Returned(ret) ==
    /\ opt.pc = "call"
    /\ last' = [op |-> opt.fn, arg |-> opt.arg, ret |-> ret]
    /\ opt' = [pc |-> "idle"]
    /\ UNCHANGED <<store, disk, llmAvailable, calls, hist, sched, cycles, runtime>>

\* rule.apply(c) of the rule of the catalogue named opt.rule.
callRuleApply ==
    /\ opt.pc = "call" /\ opt.fn = "apply"
    /\ Returned(RuleApply(opt.rule, opt.arg))

callOptimizeWithRules ==
    /\ opt.pc = "call" /\ opt.fn = "optimizeWithRules"
    /\ Returned(optimizeWithRules(opt.arg))

callHeuristicScore ==
    /\ opt.pc = "call" /\ opt.fn = "heuristicScore"
    /\ Returned(heuristicScore(opt.arg))

callParseLLMJudgeOutput ==
    /\ opt.pc = "call" /\ opt.fn = "parseLLMJudgeOutput"
    /\ Returned(parseLLMJudgeOutput(opt.arg))

callParseLLMCompareOutput ==
    /\ opt.pc = "call" /\ opt.fn = "parseLLMCompareOutput"
    /\ Returned(parseLLMCompareOutput(opt.arg))

callFindSimilarPrompts ==
    /\ opt.pc = "call" /\ opt.fn = "findSimilarPrompts"
    /\ Returned(findSimilarPrompts(opt.arg.userPrompt, opt.arg.openSourcePrompts,
                                   opt.arg.maxResults, opt.arg.threshold))

NextPure ==
    \/ callFindSimilarPrompts
    \/ callRuleApply
    \/ callOptimizeWithRules
    \/ callHeuristicScore
    \/ callParseLLMJudgeOutput
    \/ callParseLLMCompareOutput

SpecPure == InitPure /\ [][NextPure]_vars

\* ------------------------------------------------------------------ update controller
\* runCrawlCycle and runOptimizeCycle are async: each runs to its first await,
\* and anything may be called on the controller before it goes on.

\* The listeners handed to onEvent: one that returns and one that throws.
ListenerKinds == {"returns", "throws"}

\* The instants Date.now() shows.
Instants == {1, 2}

\* A candidate whose content is no string (undefined): optimizePrompt rejects
\* on it, with the TypeError of content.toLowerCase().
UndefinedContent == <<"undefined">>

\* What the prompt providers return.
\* Usages [3, 5, 0], as in the test of the manual optimize cycle.
ScenarioE ==
    <<[id |-> "p1", content |-> Bare, usageCount |-> 3],
      [id |-> "p2", content |-> Rich, usageCount |-> 5],
      [id |-> "p1", content |-> Plain, usageCount |-> 0]>>

\* The unused candidate first.
ZeroFirst ==
    <<[id |-> "p2", content |-> Plain, usageCount |-> 0],
      [id |-> "p1", content |-> Bare, usageCount |-> 3],
      [id |-> "p2", content |-> Rich, usageCount |-> 5]>>

\* A candidate without content, then one with.
OneBad ==
    <<[id |-> "p2", content |-> UndefinedContent, usageCount |-> 5],
      [id |-> "p1", content |-> Bare, usageCount |-> 3]>>

\* What a provider or the loader throws: an Error, or null (throw null, or a
\* promise rejected with no reason), on which err.message throws in turn.
Thrown == {"Error", "null"}

\* The functions handed to setPromptProvider: those that throw, and those
\* that return one of the lists.
Providers ==
    {[kind |-> "throws", thrown |-> t] : t \in Thrown}
    \cup {[kind |-> "returns", prompts |-> l] : l \in {ScenarioE, ZeroFirst, OneBad}}

\* The providers of the overlapping cycles: one that throws and leaves its
\* cycle without optimize-done, and the list of scenario E.
RaceProviders ==
    {[kind |-> "throws", thrown |-> "null"], [kind |-> "returns", prompts |-> ScenarioE]}

\* What the fetch of each of DEFAULT_SOURCES may come to: crawlSource throws
\* (the request fails), or it returns the prompts parsed.
SourceOutcomes ==
    <<{[kind |-> "throws"], [kind |-> "returns", prompts |-> <<Coder>>]},
      {[kind |-> "throws"], [kind |-> "returns", prompts |-> <<Reviewer>>]}>>

\* The ways one crawl of the sources may go.
Crawls ==
    {o \in [1..Len(SourceOutcomes) -> UNION {SourceOutcomes[i] : i \in 1..Len(SourceOutcomes)}] :
        \A i \in 1..Len(SourceOutcomes) : o[i] \in SourceOutcomes[i]}

\* crawlAllSources(sources): the prompts of the sources that answered, in the
\* order of the sources; a source that throws is logged and skipped.
RECURSIVE crawlAllSources(_)
crawlAllSources(outcomes) ==
    IF outcomes = <<>> THEN <<>>
    ELSE (IF Head(outcomes).kind = "returns" THEN Head(outcomes).prompts ELSE <<>>)
            \o crawlAllSources(Tail(outcomes))

\* The corpora handed to loadPromptsFromCache.
InjectedCorpora == {<<Coder, Poet>>}

\* DEFAULT_OPTIMIZER_CONFIG; similarityThreshold in tenths.
DEFAULT_OPTIMIZER_CONFIG == [maxReferences |-> 5, similarityThreshold |-> 1]

\* The references optimizePrompt retrieves for a text from the cache.
References(optimizer, content) ==
    findSimilarPrompts(content, optimizer.cachedOpenSourcePrompts,
                       DEFAULT_OPTIMIZER_CONFIG.maxReferences,
                       DEFAULT_OPTIMIZER_CONFIG.similarityThreshold).ret

\* loadPromptsFromCache(prompts)
loadPromptsFromCache(prompts) ==
    /\ sched' = [sched EXCEPT !.optimizer =
                    [cachedOpenSourcePrompts |-> prompts, lastCrawlTime |-> runtime.now]]
    /\ last' = [op |-> "loadPromptsFromCache"]
    /\ UNCHANGED <<store, disk, llmAvailable, opt, calls, hist, cycles, runtime>>

\* An event without detail.
NoDetail == [text |-> "none"]

\* A variant of emit whose loop ends at the first listener that throws.
emitUntilThrow(listeners, type, detail) ==
    LET throwers == {i \in 1..Len(listeners) : listeners[i] = "throws"}
        n == IF throwers = {} THEN Len(listeners)
             ELSE CHOOSE i \in throwers : \A j \in throwers : i <= j
    IN [type |-> type, timestamp |-> runtime.now, detail |-> detail,
        calls |-> [i \in 1..n |-> [listener |-> i, threw |-> listeners[i] = "throws"]]]

\* emit(event): the event, with the calls the loop makes on the listeners,
\* in order; what a listener throws is caught.
emit(listeners, type, detail) ==
    [type |-> type, timestamp |-> runtime.now, detail |-> detail,
     calls |-> [i \in 1..Len(listeners) |->
                  [listener |-> i, threw |-> listeners[i] = "throws"]]]

\* onEvent(listener)
onEvent(listener) ==
    /\ Len(sched.listeners) < MaxListeners
    /\ sched' = [sched EXCEPT !.listeners = Append(@, listener)]
    /\ last' = [op |-> "onEvent"]
    /\ UNCHANGED <<store, disk, llmAvailable, opt, calls, hist, cycles, runtime>>

\* setPromptProvider(fn)
setPromptProvider(fn) ==
    /\ sched' = [sched EXCEPT !.getPromptsFn = fn]
    /\ last' = [op |-> "setPromptProvider"]
    /\ UNCHANGED <<store, disk, llmAvailable, opt, calls, hist, cycles, runtime>>

\* setVersionManager(vm), with the ledger of this model.
setVersionManager ==
    /\ sched' = [sched EXCEPT !.versionManager = "vm"]
    /\ last' = [op |-> "setVersionManager"]
    /\ UNCHANGED <<store, disk, llmAvailable, opt, calls, hist, cycles, runtime>>

\* The handles of the intervals that are armed.
Handles == {iv.handle : iv \in runtime.intervals}

\* The handle setInterval returns: one that no armed interval has.
FreshHandle(taken) ==
    CHOOSE h \in 1..(Cardinality(taken) + 1) :
        h \notin taken /\ \A g \in 1..(h - 1) : g \in taken

\* A variant of start without the check of _running.
startAlways ==
    /\ last' = [op |-> "start", armed |-> sched.config.enabled]
    /\ IF ~sched.config.enabled
       THEN UNCHANGED <<sched, runtime>>
       ELSE LET h1 == FreshHandle(Handles)
                h2 == FreshHandle(Handles \cup {h1})
            IN /\ sched' = [sched EXCEPT !.running = TRUE,
                                         !.crawlTimer = h1, !.optimizeTimer = h2]
               /\ runtime' = [runtime EXCEPT !.intervals =
                                 @ \cup {[handle |-> h1, runs |-> "runCrawlCycle"],
                                         [handle |-> h2, runs |-> "runOptimizeCycle"]}]
    /\ UNCHANGED <<store, disk, llmAvailable, opt, calls, hist, cycles>>

\* start(); armed notes whether this call armed the timers.
start ==
    /\ last' = [op |-> "start", armed |-> ~(sched.running \/ ~sched.config.enabled)]
    /\ IF sched.running \/ ~sched.config.enabled
       THEN UNCHANGED <<sched, runtime>>
       ELSE LET h1 == FreshHandle(Handles)
                h2 == FreshHandle(Handles \cup {h1})
            IN /\ sched' = [sched EXCEPT !.running = TRUE,
                                         !.crawlTimer = h1, !.optimizeTimer = h2]
               /\ runtime' = [runtime EXCEPT !.intervals =
                                 @ \cup {[handle |-> h1, runs |-> "runCrawlCycle"],
                                         [handle |-> h2, runs |-> "runOptimizeCycle"]}]
    /\ UNCHANGED <<store, disk, llmAvailable, opt, calls, hist, cycles>>

\* The intervals left after clearInterval on the two timers of the controller.
Cleared(intervals) ==
    {iv \in intervals : iv.handle \notin {sched.crawlTimer, sched.optimizeTimer}}

\* A variant of CyclesAfterStop in which stop() drops the cycles in flight.
CyclesAfterStopAborted(cs) == [k \in Slots |-> NoCycle]

\* The cycles in flight after stop(): stop() touches none of them.  Each gets
\* the note that the controller was stopped while it ran (a note of the
\* observer: the program keeps none).
CyclesAfterStop(cs) ==
    [k \in Slots |-> IF cs[k].kind = "idle" THEN cs[k] ELSE [cs[k] EXCEPT !.stopped = TRUE]]

\* The controller after stop(): both timers null, _running false.
Stopped(s) ==
    [s EXCEPT !.crawlTimer = NoTimer, !.optimizeTimer = NoTimer, !.running = FALSE]

\* stop()
stop ==
    /\ sched' = Stopped(sched)
    /\ runtime' = [runtime EXCEPT !.intervals = Cleared(@)]
    /\ cycles' = CyclesAfterStop(cycles)
    /\ last' = [op |-> "stop"]
    /\ UNCHANGED <<store, disk, llmAvailable, opt, calls, hist>>

\* dispose(): stop(), then the listeners are dropped.
dispose ==
    /\ sched' = [Stopped(sched) EXCEPT !.listeners = <<>>]
    /\ runtime' = [runtime EXCEPT !.intervals = Cleared(@)]
    /\ cycles' = CyclesAfterStop(cycles)
    /\ last' = [op |-> "dispose"]
    /\ UNCHANGED <<store, disk, llmAvailable, opt, calls, hist>>

\* Time passes.
TimePasses ==
    /\ \E t \in Instants : t > runtime.now /\ runtime' = [runtime EXCEPT !.now = t]
    /\ UNCHANGED <<store, disk, last, llmAvailable, opt, calls, hist, sched, cycles>>

\* No cycle of the kind is in flight.
HasFreeSlot(kind) == cycles[kind].kind = "idle"

\* runCrawlCycle() up to its await: crawl-start is emitted and the loader called.
runCrawlCycleCall(origin) ==
    /\ HasFreeSlot("crawl")
    /\ sched.crawlCount < MaxCycleCount
    /\ cycles' = [cycles EXCEPT !["crawl"] =
                     [kind |-> "crawl", origin |-> origin, stopped |-> FALSE,
                      events |-> <<emit(sched.listeners, "crawl-start", NoDetail)>>]]
    /\ UNCHANGED <<store, disk, last, llmAvailable, opt, calls, hist, sched, runtime>>

\* loadOpenSourcePrompts(true) resolves after the crawl of the sources went as
\* outcomes say: the cache is what crawlAllSources returned and lastCrawlTime
\* the instant of the call; then the counter, the timestamp, crawl-done with
\* the length of the cache, and the cycle returns [].
loadOpenSourcePromptsResolves(k, outcomes) ==
    /\ cycles[k].kind = "crawl"
    /\ sched' = [sched EXCEPT
                   !.optimizer = [cachedOpenSourcePrompts |-> crawlAllSources(outcomes),
                                  lastCrawlTime |-> cycles[k].events[1].timestamp],
                   !.crawlCount = @ + 1, !.lastCrawl = runtime.now]
    /\ last' = [op |-> "runCrawlCycle", origin |-> cycles[k].origin,
                stopped |-> cycles[k].stopped, failed |-> FALSE, rejected |-> FALSE,
                crawled |-> outcomes, ret |-> <<>>,
                events |-> Append(cycles[k].events,
                                  emit(sched.listeners, "crawl-done",
                                       [text |-> "Fetched",
                                        count |-> Len(crawlAllSources(outcomes))]))]
    /\ cycles' = [cycles EXCEPT ![k] = NoCycle]
    /\ UNCHANGED <<store, disk, llmAvailable, opt, calls, hist, runtime>>

\* loadOpenSourcePrompts rejects with thrown: the catch builds the detail from
\* err.message, emits error, and the cycle returns [].  On null err.message
\* throws inside the catch: nothing is emitted and the cycle rejects.
loadOpenSourcePromptsRejects(k, thrown) ==
    /\ cycles[k].kind = "crawl"
    /\ last' = [op |-> "runCrawlCycle", origin |-> cycles[k].origin,
                stopped |-> cycles[k].stopped, failed |-> TRUE,
                rejected |-> (thrown = "null"), ret |-> <<>>,
                events |-> IF thrown = "null" THEN cycles[k].events
                           ELSE Append(cycles[k].events,
                                       emit(sched.listeners, "error",
                                            [text |-> "Crawl error"]))]
    /\ cycles' = [cycles EXCEPT ![k] = NoCycle]
    /\ UNCHANGED <<store, disk, llmAvailable, opt, calls, hist, sched, runtime>>

\* A variant of SelectPrompts that truncates before it filters.
SelectPromptsTruncateFirst(prompts, config) ==
    LET Used(p) == p.usageCount >= config.minUsageForOptimize
    IN SelectSeq(SubSeq(prompts, 1, Min(config.maxOptimizePerCycle, Len(prompts))), Used)

\* getPromptsFn().filter(p => p.usageCount >= minUsageForOptimize)
\*               .slice(0, maxOptimizePerCycle)
SelectPrompts(prompts, config) ==
    LET Used(p) == p.usageCount >= config.minUsageForOptimize
        filtered == SelectSeq(prompts, Used)
    IN SubSeq(filtered, 1, Min(config.maxOptimizePerCycle, Len(filtered)))

\* results.filter(r => r.improved).length
ImprovedCount(results) == Cardinality({i \in 1..Len(results) : results[i].improved})

\* A variant of OptimizeCycleDone whose update of the counter is lost when
\* another optimize cycle is in flight, as a counter read before the awaits
\* and written after them would be.
OptimizeCycleDoneLostUpdate(c) ==
    /\ sched' = [sched EXCEPT
                   !.optimizeCount =
                       IF Cardinality({k \in Slots : cycles[k].kind = "optimize"}) >= 2
                       THEN @ ELSE @ + 1,
                   !.lastOptimize = runtime.now]
    /\ last' = [op |-> "runOptimizeCycle", origin |-> c.origin, stopped |-> c.stopped,
                offered |-> c.offered, prompts |-> c.prompts, called |-> c.called,
                rejected |-> FALSE, ret |-> c.results,
                events |-> Append(c.events,
                                  emit(sched.listeners, "optimize-done",
                                       [text |-> "Optimized", optimized |-> Len(c.results),
                                        improved |-> ImprovedCount(c.results)]))]

\* The end of the try block of runOptimizeCycle and its return: the counter,
\* the timestamp and optimize-done; c is the cycle, with its results.
OptimizeCycleDone(c) ==
    /\ sched' = [sched EXCEPT !.optimizeCount = @ + 1, !.lastOptimize = runtime.now]
    /\ last' = [op |-> "runOptimizeCycle", origin |-> c.origin, stopped |-> c.stopped,
                offered |-> c.offered, prompts |-> c.prompts, called |-> c.called,
                rejected |-> FALSE, ret |-> c.results,
                events |-> Append(c.events,
                                  emit(sched.listeners, "optimize-done",
                                       [text |-> "Optimized", optimized |-> Len(c.results),
                                        improved |-> ImprovedCount(c.results)]))]

\* A variant of FirstCalls that calls the optimizer on every prompt at once,
\* as a Promise.all over the prompts would.
FirstCallsAll(prompts) == prompts

\* The prompts the optimizer has been called on when the loop reaches its
\* first await: the first one.
FirstCalls(prompts) == <<prompts[1]>>

\* A variant of NoProviderReturn that goes through the cycle with no prompt:
\* optimize-start, the counter, the timestamp and optimize-done.
NoProviderReturnCounted(origin) ==
    /\ OptimizeCycleDone([origin |-> origin, stopped |-> FALSE, offered |-> <<>>,
                          prompts |-> <<>>, called |-> <<>>, results |-> <<>>,
                          events |-> <<emit(sched.listeners, "optimize-start", NoDetail)>>])
    /\ UNCHANGED cycles

\* if (!this.getPromptsFn) return []
NoProviderReturn(origin) ==
    /\ last' = [op |-> "runOptimizeCycle", origin |-> origin, stopped |-> FALSE,
                offered |-> <<>>, prompts |-> <<>>, called |-> <<>>,
                rejected |-> FALSE, ret |-> <<>>, events |-> <<>>]
    /\ UNCHANGED <<sched, cycles>>

\* The outer catch of runOptimizeCycle after getPromptsFn() has thrown, in the
\* cycle begun.
ProviderThrows(begun, thrown) ==
    /\ last' = [op |-> "runOptimizeCycle", origin |-> begun.origin, stopped |-> FALSE,
                offered |-> <<>>, prompts |-> <<>>, called |-> <<>>,
                rejected |-> (thrown = "null"), ret |-> <<>>,
                events |-> IF thrown = "null" THEN begun.events
                           ELSE Append(begun.events,
                                       emit(sched.listeners, "error",
                                            [text |-> "Optimize error"]))]
    /\ UNCHANGED <<sched, cycles>>

\* runOptimizeCycle() up to its first await: without provider it returns [];
\* otherwise optimize-start, the provider, filter and slice, and the call of
\* the optimizer on the first prompt.  A provider that throws takes it to the
\* outer catch, which builds the detail from err.message and emits error (on
\* null err.message throws inside the catch: nothing more is emitted and the
\* cycle rejects); with no prompt left it runs to its end.
runOptimizeCycleIn(slot, origin) ==
    /\ HasFreeSlot(slot)
    /\ sched.optimizeCount < MaxCycleCount
    /\ LET fn == sched.getPromptsFn
           begun == [kind |-> "optimize", origin |-> origin, stopped |-> FALSE,
                     offered |-> <<>>, prompts |-> <<>>, called |-> <<>>,
                     results |-> <<>>, ledger |-> sched.versionManager,
                     events |-> <<emit(sched.listeners, "optimize-start", NoDetail)>>]
       IN CASE fn.kind = "null" ->
                 NoProviderReturn(origin)
            [] fn.kind = "throws" ->
                 ProviderThrows(begun, fn.thrown)
            [] fn.kind = "returns" ->
                 LET prompts == SelectPrompts(fn.prompts, sched.config)
                 IN IF prompts = <<>>
                    THEN /\ OptimizeCycleDone([begun EXCEPT !.offered = fn.prompts])
                         /\ UNCHANGED cycles
                    ELSE /\ cycles' = [cycles EXCEPT ![slot] =
                                          [begun EXCEPT !.offered = fn.prompts,
                                                        !.prompts = prompts,
                                                        !.called = FirstCalls(prompts)]]
                         /\ UNCHANGED <<sched, last>>
    /\ UNCHANGED <<store, disk, llmAvailable, opt, calls, hist, runtime>>

\* runOptimizeCycle() called while no other optimize cycle is in flight.
runOptimizeCycleCall(origin) == runOptimizeCycleIn("optimize", origin)

\* The loop of runOptimizeCycle after the call on one prompt has settled,
\* with the results so far: the call on the next prompt, or the end.
NextPromptOrDone(k, results) ==
    LET c == [cycles[k] EXCEPT !.results = results]
        n == Len(c.called)
    IN IF n = Len(c.prompts)
       THEN /\ OptimizeCycleDone(c)
            /\ cycles' = [cycles EXCEPT ![k] = NoCycle]
       ELSE /\ cycles' = [cycles EXCEPT ![k] =
                             [c EXCEPT !.called = Append(@, c.prompts[n + 1]),
                                       !.ledger = sched.versionManager]]
            /\ UNCHANGED <<sched, last>>

\* The prompt the optimizer is working on in cycle k.
Current(k) == cycles[k].called[Len(cycles[k].called)]

\* A variant of ItemRejects in which the failure of one prompt ends the loop:
\* the outer catch emits error and the cycle returns the results so far.
ItemRejectsEndsCycle(k) ==
    /\ last' = [op |-> "runOptimizeCycle", origin |-> cycles[k].origin,
                stopped |-> cycles[k].stopped, offered |-> cycles[k].offered,
                prompts |-> cycles[k].prompts, called |-> cycles[k].called,
                rejected |-> FALSE, ret |-> cycles[k].results,
                events |-> Append(cycles[k].events,
                                  emit(sched.listeners, "error", [text |-> "Optimize error"]))]
    /\ cycles' = [cycles EXCEPT ![k] = NoCycle]
    /\ UNCHANGED sched

\* What the loop does when the call on a prompt has rejected: the inner catch
\* is empty, the loop goes on.
ItemRejects(k) == NextPromptOrDone(k, cycles[k].results)

\* optimizeAndVersion / optimizePrompt rejects on the prompt cycle k works on.
optimizeItemRejects(k) ==
    /\ cycles[k].kind = "optimize"
    /\ Current(k).content = UndefinedContent
    /\ ItemRejects(k)
    /\ UNCHANGED <<store, disk, llmAvailable, opt, calls, hist, runtime>>

\* The controller is run with a judge whose endpoint cannot be reached:
\* the probe of the first call sets llmAvailable to false.
ProbeFails(avail) == IF avail = "null" THEN "false" ELSE avail

\* optimizeAndVersion (with a ledger) or optimizePrompt (without) resolves on
\* the prompt cycle k works on: the result is pushed and the loop goes on.
optimizeItemResolves(k) ==
    /\ cycles[k].kind = "optimize"
    /\ Current(k).content # UndefinedContent
    /\ \E out \in optimizePrompt(ProbeFails(llmAvailable), Current(k).content) :
          LET p == Current(k)
              st == optimizeAndVersionStore(store, p.id, p.content, out.result)
              saved == /\ cycles[k].ledger = "vm"
                       /\ out.result.improved
                       /\ p.id \in DOMAIN store
          IN /\ saved => HasRoom(store)
             /\ llmAvailable' = out.avail
             /\ store' = IF saved THEN st ELSE store
             /\ disk' = IF saved THEN save(st) ELSE disk
             /\ NextPromptOrDone(k, Append(cycles[k].results, out.result))
    /\ UNCHANGED <<opt, calls, hist, runtime>>

\* An interval of the host fires and calls the cycle it was armed with.
IntervalFires(iv) ==
    /\ iv \in runtime.intervals
    /\ IF iv.runs = "runCrawlCycle"
       THEN runCrawlCycleCall("timer")
       ELSE runOptimizeCycleCall("timer")

\* The controller as it is built, with one of configs.
InitController(configs) ==
    /\ disk = [exists |-> FALSE, json |-> <<>>]
    /\ store = load(disk)
    /\ last = [op |-> "new"]
    /\ llmAvailable = "null"
    /\ opt = [pc |-> "idle"]
    /\ calls = [t \in Tasks |-> [pc |-> "idle"]]
    /\ hist = [probes |-> 0, probeFailed |-> FALSE, callFailed |-> FALSE]
    /\ \E config \in configs : sched = NewScheduler(config)
    /\ cycles = [k \in Slots |-> NoCycle]
    /\ runtime = [intervals |-> {}, now |-> 1]

\* The intervals setInterval may have armed.
Intervals ==
    {[handle |-> h, runs |-> r] :
        h \in 1..2, r \in {"runCrawlCycle", "runOptimizeCycle"}}

\* The ledger handed to setVersionManager gets a history.
LedgerInit ==
    /\ \E id \in Ids : initHistory(id, Bare, "manual")
    /\ UNCHANGED <<llmAvailable, opt, calls, hist, sched, cycles, runtime>>

\* ---- the lifecycle: start, stop and dispose, with the cycles the timers begin

InitLifecycle ==
    InitController({[enabled |-> TRUE, minUsageForOptimize |-> 1, maxOptimizePerCycle |-> 2],
                    [enabled |-> FALSE, minUsageForOptimize |-> 1, maxOptimizePerCycle |-> 2]})

NextLifecycle ==
    \/ start
    \/ stop
    \/ dispose
    \/ setPromptProvider([kind |-> "returns", prompts |-> ScenarioE])
    \/ setVersionManager
    \/ LedgerInit
    \/ \E iv \in Intervals : IntervalFires(iv)
    \/ \E k \in Slots, outcomes \in Crawls : loadOpenSourcePromptsResolves(k, outcomes)
    \/ \E k \in Slots, thrown \in Thrown : loadOpenSourcePromptsRejects(k, thrown)
    \/ \E k \in Slots : optimizeItemResolves(k)

SpecLifecycle == InitLifecycle /\ [][NextLifecycle]_vars

\* ---- crawl cycles called by hand, with listeners

InitCrawl == InitController({DEFAULT_SCHEDULER_CONFIG})

NextCrawl ==
    \/ \E l \in ListenerKinds : onEvent(l)
    \/ \E prompts \in InjectedCorpora : loadPromptsFromCache(prompts)
    \/ dispose
    \/ TimePasses
    \/ runCrawlCycleCall("manual")
    \/ \E k \in Slots, outcomes \in Crawls : loadOpenSourcePromptsResolves(k, outcomes)
    \/ \E k \in Slots, thrown \in Thrown : loadOpenSourcePromptsRejects(k, thrown)

SpecCrawl == InitCrawl /\ [][NextCrawl]_vars

\* ---- optimize cycles called by hand

InitCycle == InitController({c \in SchedulerConfigs : c.enabled})

NextCycle ==
    \/ onEvent("throws")
    \/ \E fn \in Providers : setPromptProvider(fn)
    \/ setVersionManager
    \/ LedgerInit
    \/ runOptimizeCycleCall("manual")
    \/ \E k \in Slots : optimizeItemResolves(k)
    \/ \E k \in Slots : optimizeItemRejects(k)

SpecCycle == InitCycle /\ [][NextCycle]_vars

\* ---- optimize cycles that overlap: the timer fires while a call by hand is
\* in flight, on one controller and one ledger

InitRace ==
    InitController({[enabled |-> TRUE, minUsageForOptimize |-> 1, maxOptimizePerCycle |-> 2]})

\* An interval fires whatever is in flight: nothing in start() or in the
\* cycles looks whether a cycle is running.
IntervalFiresRacing(iv) ==
    /\ iv \in runtime.intervals
    /\ IF iv.runs = "runCrawlCycle"
       THEN runCrawlCycleCall("timer")
       ELSE runOptimizeCycleIn("racing", "timer")

NextRace ==
    \/ start
    \/ \E fn \in RaceProviders : setPromptProvider(fn)
    \/ setVersionManager
    \/ LedgerInit
    \/ runOptimizeCycleCall("manual")
    \/ \E iv \in Intervals : IntervalFiresRacing(iv)
    \/ \E k \in Slots, outcomes \in Crawls : loadOpenSourcePromptsResolves(k, outcomes)
    \/ \E k \in Slots, thrown \in Thrown : loadOpenSourcePromptsRejects(k, thrown)
    \/ \E k \in Slots : optimizeItemResolves(k)

SpecRace == InitRace /\ [][NextRace]_vars

\* ------------------------------------------------------------------ claims

\* The versions of history id in store st, and their number.
Versions(st, id) == st[id].versions
Count(st, id) == Len(st[id].versions)

\* The indexes of the scored versions of a history.
ScoredIn(h) == {i \in 1..Len(h.versions) : Score(h.versions[i]) # Undefined}

\* recommendedVersion is the ordinal of the best scored version, the newest
\* among equals, or of the latest version when none is scored.
RecommendsBest(h) ==
    IF ScoredIn(h) = {}
    THEN h.recommendedVersion = h.versions[Len(h.versions)].version
    ELSE \E i \in ScoredIn(h) :
            /\ h.recommendedVersion = h.versions[i].version
            /\ \A j \in ScoredIn(h) :
                  \/ Score(h.versions[j]) < Score(h.versions[i])
                  \/ /\ Score(h.versions[j]) = Score(h.versions[i])
                     /\ h.versions[j].version <= h.versions[i].version

\* C1: after any sequence of init, append, setScore and delete calls, every
\* history recommends the scored version with the highest score, the highest
\* ordinal among those that share it, and the latest version when none is scored.
C1_RecommendedIsBest == \A id \in DOMAIN store : RecommendsBest(store[id])

\* C1, scenario D: scores [3.0, 4.5, 4.5] on ordinals 1, 2, 3 recommend 3.
C1_Witness ==
    \E id \in DOMAIN store :
        /\ Count(store, id) = 3
        /\ Score(store[id].versions[1]) = 30
        /\ Score(store[id].versions[2]) = 45
        /\ Score(store[id].versions[3]) = 45
        /\ store[id].recommendedVersion = 3

\* C2: every history holds a non-empty version list whose ordinals are
\* exactly 1, 2, ..., n in ascending order.
C2_OrdinalsGapless ==
    \A id \in DOMAIN store :
        /\ Count(store, id) >= 1
        /\ \A i \in 1..Count(store, id) : store[id].versions[i].version = i

\* C2: a history that init created and two appends extended.
C2_Witness == \E id \in DOMAIN store : Count(store, id) >= 3

\* The ledger and the file are as they were.
LedgerUnchanged == store' = store /\ disk' = disk

\* History id of st has no version of that ordinal.
NoOrdinal(st, id, version) ==
    \A i \in 1..Count(st, id) : st[id].versions[i].version # version

\* C3: append on an unknown identifier returns nothing, setScore on an unknown
\* identifier or ordinal returns false, delete on an absent identifier returns
\* false, and each of these calls leaves the ledger and the file unchanged.
C3_FailedCallsChangeNothing ==
    [][ /\ (last'.op = "addVersion" /\ last'.id \notin DOMAIN store)
            => (last'.ret = <<>> /\ LedgerUnchanged)
        /\ (last'.op = "setScore" /\ last'.id \notin DOMAIN store)
            => (last'.ret = FALSE /\ LedgerUnchanged)
        /\ (/\ last'.op = "setScore"
            /\ last'.id \in DOMAIN store
            /\ NoOrdinal(store, last'.id, last'.version))
            => (last'.ret = FALSE /\ LedgerUnchanged)
        /\ (last'.op = "deleteHistory" /\ last'.id \notin DOMAIN store)
            => (last'.ret = FALSE /\ LedgerUnchanged)
      ]_vars

\* C3: setScore has just failed on an ordinal an existing history lacks.
C3_Witness ==
    /\ last.op = "setScore"
    /\ last.ret = FALSE
    /\ last.id \in DOMAIN store
    /\ NoOrdinal(store, last.id, last.version)

\* C4: init on an identifier that has a history returns that history and
\* changes nothing; the content supplied is discarded.
C4_InitIsIdempotent ==
    [][ (last'.op = "initHistory" /\ last'.id \in DOMAIN store)
            => (last'.ret = <<store[last'.id]>> /\ LedgerUnchanged)
      ]_vars

\* C4: init has returned a history whose first version is not the content supplied.
C4_Witness ==
    /\ last.op = "initHistory"
    /\ last.id \in DOMAIN store
    /\ store[last.id].versions[1].content # last.content
    /\ last.ret = <<store[last.id]>>

\* The versions present before and after a step.
Kept(id) == 1..Min(Count(store, id), Count(store', id))

\* C5 as claimed: once a version has a score, no later operation changes it.
C5_ScoreSetOnce ==
    [][ \A id \in DOMAIN store \cap DOMAIN store' :
           \A i \in Kept(id) :
              Score(store[id].versions[i]) # Undefined
                 => Score(store'[id].versions[i]) = Score(store[id].versions[i])
      ]_vars

\* C5, amended: among init, append, setScore, delete and a reload, the score
\* of a version changes only by a successful setScore that names the version,
\* which then holds the score passed, set before or not; a score that is set
\* is never unset.
C5_ScoreChangesBySetScoreOnly ==
    [][ \A id \in DOMAIN store \cap DOMAIN store' :
           \A i \in Kept(id) :
              /\ Score(store[id].versions[i]) # Undefined
                    => Score(store'[id].versions[i]) # Undefined
              /\ Score(store'[id].versions[i]) # Score(store[id].versions[i])
                    => /\ last'.op = "setScore"
                       /\ last'.ret = TRUE
                       /\ last'.id = id
                       /\ last'.version = store[id].versions[i].version
                       /\ last'.score = Score(store'[id].versions[i])
      ]_vars

\* C5: setScore has just succeeded, and the version holds the score passed.
C5_Witness ==
    /\ last.op = "setScore"
    /\ last.ret = TRUE
    /\ \E i \in 1..Count(store, last.id) :
          /\ store[last.id].versions[i].version = last.version
          /\ Score(store[last.id].versions[i]) = last.score

\* C6: across init, append, setScore and optimizeAndVersion calls, the
\* content, ordinal and origin of a version never change and no version leaves
\* a history; a history goes only by a delete of that identifier.
C6_AppendOnly ==
    [][ \A id \in DOMAIN store :
           IF id \in DOMAIN store'
           THEN /\ Count(store', id) >= Count(store, id)
                /\ \A i \in 1..Count(store, id) :
                      /\ store'[id].versions[i].content = store[id].versions[i].content
                      /\ store'[id].versions[i].version = store[id].versions[i].version
                      /\ store'[id].versions[i].source = store[id].versions[i].source
           ELSE last'.op = "deleteHistory" /\ last'.id = id /\ last'.ret = TRUE
      ]_vars

\* C6: optimizeAndVersion has appended to a history of two versions or more.
C6_Witness ==
    /\ last.op = "optimizeAndVersion"
    /\ last.ret.improved
    /\ last.id \in DOMAIN store
    /\ Count(store, last.id) >= 3
    /\ store[last.id].versions[Count(store, last.id)].source = "auto-optimize"

\* Two stores show the same identifiers, version lists, scores and
\* recommendedVersion.
SameLedger(a, b) ==
    /\ DOMAIN a = DOMAIN b
    /\ \A id \in DOMAIN a :
          /\ a[id].recommendedVersion = b[id].recommendedVersion
          /\ Len(a[id].versions) = Len(b[id].versions)
          /\ \A i \in 1..Len(a[id].versions) :
                /\ a[id].versions[i].version = b[id].versions[i].version
                /\ a[id].versions[i].content = b[id].versions[i].content
                /\ a[id].versions[i].source = b[id].versions[i].source
                /\ Score(a[id].versions[i]) = Score(b[id].versions[i])

\* The last call was a mutation that succeeded.
Mutated ==
    \/ last.op = "initHistory"
    \/ last.op = "addVersion" /\ last.ret # <<>>
    \/ last.op = "setScore" /\ last.ret = TRUE
    \/ last.op = "deleteHistory" /\ last.ret = TRUE

\* C7: after a successful init, append, setScore or delete returns, a ledger
\* loaded from the file shows what the one in memory shows.
C7_FileMatchesMemory == Mutated => SameLedger(load(disk), store)

\* C7: append has returned a version whose judgeScore is undefined, a key the
\* file does not hold: the two stores differ as values and show the same.
C7_Witness ==
    /\ last.op = "addVersion"
    /\ last.ret # <<>>
    /\ disk.exists
    /\ load(disk) # store
    /\ \E i \in 1..Count(store, last.id) :
          "judgeScore" \in DOMAIN store[last.id].versions[i]
             /\ store[last.id].versions[i].judgeScore = Undefined

\* C8: after delete returns true the identifier has no history; on an
\* identifier without history append, setScore and didImprove fail, and only
\* init brings a history, which holds version 1 with the content supplied and
\* nothing else.
C8_DeleteIsFinal ==
    [][ /\ (last'.op = "deleteHistory" /\ last'.ret = TRUE)
            => last'.id \notin DOMAIN store'
        /\ \A id \in Ids \ DOMAIN store :
              /\ (last'.op = "addVersion" /\ last'.id = id) => last'.ret = <<>>
              /\ (last'.op = "setScore" /\ last'.id = id) => last'.ret = FALSE
              /\ (last'.op = "didImprove" /\ last'.id = id) => last'.ret = FALSE
              /\ id \in DOMAIN store'
                    => /\ last'.op = "initHistory"
                       /\ last'.id = id
                       /\ store'[id].recommendedVersion = 1
                       /\ store'[id].versions =
                             <<[version |-> 1, content |-> last'.content,
                                source |-> "manual"]>>
      ]_vars

\* C8: delete has returned true, the history is gone from memory and from the file.
C8_Witness ==
    /\ last.op = "deleteHistory"
    /\ last.ret = TRUE
    /\ last.id \notin DOMAIN store
    /\ last.id \notin DOMAIN load(disk)
    /\ disk.exists

\* didImprove as claimed: two versions or more, the last two scored, the last
\* strictly above the one before.
Improved(st, id) ==
    /\ id \in DOMAIN st
    /\ Count(st, id) >= 2
    /\ Score(st[id].versions[Count(st, id)]) # Undefined
    /\ Score(st[id].versions[Count(st, id) - 1]) # Undefined
    /\ Score(st[id].versions[Count(st, id)]) > Score(st[id].versions[Count(st, id) - 1])

\* C9: didImprove returns true exactly when the history has two versions or
\* more, its last two are scored and the last scores strictly higher.
C9_DidImproveExact == last.op = "didImprove" => (last.ret <=> Improved(store, last.id))

\* C9: didImprove has returned true.
C9_Witness == last.op = "didImprove" /\ last.ret = TRUE

\* The step is the return of optimizeAndVersion.
Returns == opt.pc = "await" /\ opt'.pc = "idle"

\* History id is one version longer after the step.
Appended(id) ==
    /\ id \in DOMAIN store
    /\ id \in DOMAIN store'
    /\ Count(store', id) = Count(store, id) + 1

\* C10: optimizeAndVersion appends to the history of id exactly when optimize
\* reported improved and id has a history; the version appended carries the
\* candidate text, the origin auto-optimize and the candidate's score; when
\* improved is false the ledger and the file are left as they were.
C10_CommitsIffImproved ==
    [][ Returns =>
          /\ last'.op = "optimizeAndVersion" /\ last'.id = opt.id
          /\ Appended(opt.id) <=> (last'.ret.improved /\ opt.id \in DOMAIN store)
          /\ \A id \in Ids \ {opt.id} : ~Appended(id)
          /\ Appended(opt.id) =>
                LET v == store'[opt.id].versions[Count(store', opt.id)]
                IN /\ v.content = last'.ret.optimizedContent
                   /\ v.content = optimizeWithRules(opt.content)
                   /\ v.source = "auto-optimize"
                   /\ Score(v) = last'.ret.optimizedScore
                   /\ v.version = Count(store, opt.id) + 1
          /\ ~last'.ret.improved => LedgerUnchanged
      ]_vars

\* C10: optimizeAndVersion has returned improved and the latest version of the
\* history is the candidate, with its score.
C10_Witness ==
    /\ last.op = "optimizeAndVersion"
    /\ last.ret.improved
    /\ last.id \in DOMAIN store
    /\ LET v == store[last.id].versions[Count(store, last.id)]
       IN /\ v.content = last.ret.optimizedContent
          /\ v.source = "auto-optimize"
          /\ Score(v) = last.ret.optimizedScore

\* C11: optimizeAndVersion on an identifier without a history returns the
\* result of optimize, opens no history for it and leaves every history and
\* the file as they were, also when the result says improved.
C11_UnknownIdIsNoOp ==
    [][ (Returns /\ opt.id \notin DOMAIN store) =>
          /\ last'.op = "optimizeAndVersion" /\ last'.id = opt.id
          /\ last'.ret \in {out.result : out \in optimizePrompt(llmAvailable, opt.content)}
          /\ opt.id \notin DOMAIN store'
          /\ LedgerUnchanged
      ]_vars

\* C11: optimizeAndVersion has returned improved for an identifier without a
\* history, while another identifier has one.
C11_Witness ==
    /\ last.op = "optimizeAndVersion"
    /\ last.ret.improved
    /\ last.id \notin DOMAIN store
    /\ store # <<>>

CloseAndChanged(r) ==
    /\ LessThanHalfApart(r.originalScore, r.optimizedScore)
    /\ r.optimizedContent # r.originalContent

Contains(t, out) ==
    \E k \in 0..(Len(out) - Len(t)) : SubSeq(out, k + 1, k + Len(t)) = t

\* C13: what a rule of the catalogue returns is its input, or its input with
\* text added in front or behind, and what the transformer returns holds its
\* input as a contiguous run, whichever of the rules have fired before.
C13_TransformIsAdditive ==
    /\ last.op = "apply" =>
          \/ last.ret = last.arg
          \/ \E chunk \in DOMAIN ChunkLength :
                \/ last.ret = <<chunk>> \o last.arg
                \/ last.ret = last.arg \o <<chunk>>
    /\ last.op \in {"apply", "optimizeWithRules"} => Contains(last.arg, last.ret)

\* C13: the transformer has returned the bare text with text added in front
\* of it and behind it.
C13_Witness ==
    /\ last.op = "optimizeWithRules"
    /\ last.arg = Bare
    /\ Len(last.ret) > 2
    /\ Head(last.ret) # "bare"
    /\ last.ret[Len(last.ret)] # "bare"
    /\ Contains(Bare, last.ret)

\* The places of a reply where the marker [RESULT] is followed by a digit.
DigitMarkers(output) ==
    {i \in 1..(Len(output) - 1) :
        output[i] = "[RESULT]" /\ output[i + 1] \in DOMAIN DigitValue}

\* C19: parseLLMJudgeOutput returns 3 when no marker [RESULT] of the reply is
\* followed by a digit, and otherwise the digit behind the first such marker,
\* with 0 raised to 1 and 6 to 9 lowered to 5.
C19_ParseJudgeFirstMarkerClamped ==
    last.op = "parseLLMJudgeOutput" =>
        LET marks == DigitMarkers(last.arg)
        IN IF marks = {} THEN last.ret = 30
           ELSE LET first == CHOOSE i \in marks : \A j \in marks : i <= j
                    digit == DigitValue[last.arg[first + 1]]
                IN /\ digit = 0 => last.ret = 10
                   /\ digit \in 1..5 => last.ret = 10 * digit
                   /\ digit \in 6..9 => last.ret = 50

\* C19: a reply with two markers, the first followed by 9 and the second by
\* 4, has been parsed to 5.
C19_Witness ==
    /\ last.op = "parseLLMJudgeOutput"
    /\ last.arg = <<"[RESULT]", "9", "[RESULT]", "4">>
    /\ last.ret = 50

\* The places of a reply where the marker, in either case, is followed by
\* the letter A or B, in either case.
LetterMarkers(output) ==
    {i \in 1..(Len(output) - 1) :
        /\ output[i] \in {"[RESULT]", "[result]"}
        /\ output[i + 1] \in {"A", "B", "a", "b"}}

\* C20: parseLLMCompareOutput returns the letter, as a capital, behind the
\* first marker that is followed by A or B (the match is made without regard
\* to case), and B when no marker is followed by A or B; it returns A or B.
C20_ParseCompareFirstMarkerOrB ==
    last.op = "parseLLMCompareOutput" =>
        LET marks == LetterMarkers(last.arg)
        IN /\ last.ret \in {"A", "B"}
           /\ marks = {} => last.ret = "B"
           /\ marks # {} =>
                LET first == CHOOSE i \in marks : \A j \in marks : i <= j
                IN last.ret = "A" <=> last.arg[first + 1] \in {"A", "a"}

\* C20: a reply with two markers, the first followed by A and the second by
\* B, has been parsed to A.
C20_Witness ==
    /\ last.op = "parseLLMCompareOutput"
    /\ last.arg = <<"[RESULT]", "A", "[RESULT]", "B">>
    /\ last.ret = "A"

\* The last call that returned was one on the judge.
JudgeReturned == last.op \in {"scorePrompt", "compareVersions"}

\* C14: every score scorePrompt returns, from the reply of the model or from
\* the deterministic scorer, is a number from 1 to 5.
C14_ScoresInRange ==
    last.op = "scorePrompt" =>
        /\ "score" \in DOMAIN last.ret
        /\ last.ret.score \in 10..50

\* C14: the deterministic scorer has answered 5 for a text whose increments
\* add up to more.
C14_Witness ==
    /\ last.op = "scorePrompt"
    /\ last.ret.method = "heuristic"
    /\ last.ret.score = 50

\* C15: a call on the judge that has returned has returned a result, with a
\* score from 1 to 5 or a winner A or B and the tag of the path that answered;
\* when the probe failed, the judge was known to be unavailable or the remote
\* call failed, the tag is the deterministic one; and a call in flight can
\* always go on.
C15_JudgeNeverFails ==
    /\ JudgeReturned =>
          /\ "error" \notin DOMAIN last.ret
          /\ "method" \in DOMAIN last.ret
          /\ last.ret.method \in {"llm", "heuristic"}
          /\ last.op = "scorePrompt" => last.ret.score \in 10..50
          /\ last.op = "compareVersions" => last.ret.winner \in {"A", "B"}
          /\ last.path \in {"unavailable", "probe-failed", "call-failed"} =>
                last.ret.method = "heuristic"
          /\ last.path = "llm" => last.ret.method = "llm"
    /\ \A t \in Tasks : calls[t].pc # "idle" => ENABLED JudgeSettles(t)

\* C15: a call whose remote call failed has returned the deterministic result.
C15_Witness ==
    /\ JudgeReturned
    /\ last.path = "call-failed"
    /\ last.ret.method = "heuristic"

\* C16: the availability probe of a judge is begun at most once, whatever the
\* sequence or overlap of its calls.
C16_ProbedAtMostOnce == hist.probes <= 1

\* C17: once a probe of the judge has failed, a call that starts neither
\* probes nor calls the model: it returns the deterministic result at once.
C17_DeterministicAfterProbeFailed ==
    [][ \A t \in Tasks :
          (hist.probeFailed /\ calls[t].pc = "idle") =>
              /\ calls'[t].pc = "idle"
              /\ (last' # last /\ last'.task = t) => last'.ret.method = "heuristic"
      ]_vars

\* C18: once a remote call has failed, on a judge whose probe succeeded, no
\* call that starts calls the model again.
C18_DeterministicAfterCallFailed ==
    [][ \A t \in Tasks :
          (hist.callFailed /\ calls[t].pc = "idle") => calls'[t].pc # "remote"
      ]_vars

\* The text holds a role phrase, three numbered steps, a constraint word and
\* a fenced code block.
IsStructured(text) ==
    /\ \E i \in 1..Len(text) : <<text[i]>> \in StructuredTexts
    /\ Matches(text, "h-role")
    /\ Matches(text, "h-constraint")
    /\ Matches(text, "h-code")

\* The text earns an increment of heuristicScore beside those for the role
\* phrase, the steps, the constraint word and the code block.
HasFurtherIncrements(text) ==
    \/ TextLength(text) > 200
    \/ Matches(text, "h-struct") /\ Matches(text, "h-seq")
    \/ \E p \in {"h-example", "h-output", "h-var", "h-edge"} : Matches(text, p)

QueryTokens(arg) == Tokenize(arg.userPrompt)
Shared(arg, i) ==
    Cardinality(QueryTokens(arg)
                \cap Tokenize(arg.openSourcePrompts[i].title \o arg.openSourcePrompts[i].content))

\* The places of the corpus whose similarity is at least the threshold.
Eligible(arg) ==
    {i \in 1..Len(arg.openSourcePrompts) :
        10 * Shared(arg, i) >= arg.threshold * Cardinality(QueryTokens(arg))}

\* Place j of the corpus comes before place i in the result: its similarity
\* is higher, or the same and it stands earlier in the corpus.
ComesBefore(arg, j, i) ==
    \/ Shared(arg, j) > Shared(arg, i)
    \/ Shared(arg, j) = Shared(arg, i) /\ j < i

\* The place of the corpus that has rank k among the eligible ones.
Ranked(arg, k) ==
    CHOOSE i \in Eligible(arg) :
        Cardinality({j \in Eligible(arg) : ComesBefore(arg, j, i)}) = k - 1

\* C22: find returns the empty list when the query has no word longer than
\* three characters or the corpus is empty; otherwise the records whose
\* similarity is at least the threshold, by descending similarity and in
\* corpus order among equals, cut to the first maxResults; the corpus is as
\* it was.
C22_FindRanksAndTruncates ==
    last.op = "findSimilarPrompts" =>
        LET arg == last.arg
            n == Min(arg.maxResults, Cardinality(Eligible(arg)))
        IN /\ last.ret.openSourcePrompts = arg.openSourcePrompts
           /\ (QueryTokens(arg) = {} \/ arg.openSourcePrompts = <<>>) => last.ret.ret = <<>>
           /\ QueryTokens(arg) # {} =>
                 last.ret.ret = [k \in 1..n |-> arg.openSourcePrompts[Ranked(arg, k)]]

\* C22: with the query 'Write code', the threshold 0.5 and maxResults 2, find
\* has returned, of three records that qualify, the one that shares both
\* words and then the first in the corpus of the two that share one.
C22_Witness ==
    /\ last.op = "findSimilarPrompts"
    /\ last.arg = [userPrompt |-> <<"Write", "code">>,
                   openSourcePrompts |-> <<Reviewer, Poet, Coder>>,
                   maxResults |-> 2, threshold |-> 5]
    /\ Eligible(last.arg) = {1, 2, 3}
    /\ last.ret.ret = <<Coder, Reviewer>>

\* ---- C23

\* Both timers of the controller are armed: each field holds the handle of an
\* interval of the host that runs its cycle, and the host has no other.
BothArmed ==
    /\ sched.crawlTimer # NoTimer
    /\ sched.optimizeTimer # NoTimer
    /\ runtime.intervals = {[handle |-> sched.crawlTimer, runs |-> "runCrawlCycle"],
                            [handle |-> sched.optimizeTimer, runs |-> "runOptimizeCycle"]}
    /\ Cardinality(runtime.intervals) = 2

\* Neither timer is armed.
NoneArmed ==
    /\ sched.crawlTimer = NoTimer
    /\ sched.optimizeTimer = NoTimer
    /\ runtime.intervals = {}

\* C23: in every reachable state the controller is running exactly when both
\* periodic timers are armed and idle exactly when neither is; a controller
\* that is not enabled is never running; after stop or dispose neither timer
\* is armed.  In every step: the controller starts running only from idle,
\* enabled, by start, which arms one pair of timers; while it stays running
\* no timer is armed or disarmed; and when it stops running both timers are
\* disarmed.
C23_RunningIffTimersArmed ==
    /\ [](/\ sched.running <=> BothArmed
          /\ ~sched.running <=> NoneArmed
          /\ ~sched.config.enabled => ~sched.running
          /\ last.op \in {"stop", "dispose"} => ~sched.running /\ NoneArmed)
    /\ [][/\ (~sched.running /\ sched'.running) =>
                /\ sched.config.enabled
                /\ last'.op = "start"
                /\ runtime.intervals = {}
                /\ Cardinality(runtime'.intervals) = 2
          /\ (sched.running /\ sched'.running) =>
                /\ runtime'.intervals = runtime.intervals
                /\ sched'.crawlTimer = sched.crawlTimer
                /\ sched'.optimizeTimer = sched.optimizeTimer
          /\ (sched.running /\ ~sched'.running) =>
                /\ last'.op \in {"stop", "dispose"}
                /\ runtime'.intervals = {}]_vars

\* start() has been called on a running controller and has armed nothing:
\* the controller still has its one pair of timers.
C23_Witness ==
    /\ last.op = "start"
    /\ ~last.armed
    /\ sched.running
    /\ BothArmed

\* ---- C24

\* The cycle of kind k begins in this step and is in flight after it.
CycleBegins(k) == cycles[k].kind = "idle" /\ cycles'[k].kind # "idle"

\* The cycle of kind k is in flight before this step and returns in it.
CycleReturns(k) == cycles[k].kind # "idle" /\ cycles'[k].kind = "idle"

\* The interval the controller armed for cycle kind k is armed at the host.
TimerArmed(k) ==
    IF k = "crawl"
    THEN [handle |-> sched.crawlTimer, runs |-> "runCrawlCycle"] \in runtime.intervals
    ELSE [handle |-> sched.optimizeTimer, runs |-> "runOptimizeCycle"] \in runtime.intervals

\* The optimize cycle in flight gets the result of one more prompt in this
\* step, an improved one for a prompt that has a history in its ledger.
PushesImproved(id) ==
    /\ cycles["optimize"].kind = "optimize"
    /\ cycles["optimize"].ledger = "vm"
    /\ Current("optimize").id = id
    /\ id \in DOMAIN store
    /\ LET before == cycles["optimize"].results
           after == IF cycles'["optimize"].kind = "optimize"
                    THEN cycles'["optimize"].results ELSE last'.ret
       IN /\ Len(after) = Len(before) + 1
          /\ after[Len(after)].improved

\* C24: a timer-initiated cycle begins only while the controller is running
\* with the timer of that cycle armed, so none begins between stop() and the
\* next start(); a timer-initiated cycle that has returned without a stop()
\* in between finds the controller running.  stop() and dispose() leave every
\* cycle in flight as it is: the cycle still calls the optimizer on each of
\* its remaining prompts, an improved result is still appended to the ledger
\* and saved, and when the cycle returns its counter has grown by exactly one
\* (for a crawl cycle: when the loader has resolved).
C24_StopPreventsButDoesNotAbort ==
    /\ [](last.op \in {"runCrawlCycle", "runOptimizeCycle"} =>
            (last.origin = "timer" /\ ~last.stopped => sched.running))
    /\ [][/\ \A k \in Slots :
                (CycleBegins(k) /\ cycles'[k].origin = "timer") =>
                    sched.running /\ TimerArmed(k)
          /\ (sched.running /\ ~sched'.running) =>
                \A k \in Slots :
                    cycles[k].kind # "idle" =>
                        cycles'[k] = [cycles[k] EXCEPT !.stopped = TRUE]
          /\ \A k \in Slots :
                (cycles[k].kind # "idle" /\ cycles'[k].kind # "idle") =>
                    /\ cycles'[k].kind = cycles[k].kind
                    /\ cycles[k].stopped => cycles'[k].stopped
          /\ CycleReturns("optimize") =>
                /\ last'.op = "runOptimizeCycle"
                /\ last'.stopped = cycles["optimize"].stopped
                /\ last'.called = last'.prompts
                /\ Len(last'.ret) = Len(last'.prompts)
                /\ sched'.optimizeCount = sched.optimizeCount + 1
          /\ CycleReturns("crawl") =>
                /\ last'.op = "runCrawlCycle"
                /\ last'.stopped = cycles["crawl"].stopped
                /\ ~last'.failed => sched'.crawlCount = sched.crawlCount + 1
          /\ \A id \in Ids :
                PushesImproved(id) =>
                    /\ Count(store', id) = Count(store, id) + 1
                    /\ disk' = save(store')]_vars

\* An optimize cycle begun by the timer has returned its two results after
\* stop() was called on it in flight: the controller is idle, the counter is
\* 1, and the improved text is in the ledger and in its file.
C24_Witness ==
    /\ last.op = "runOptimizeCycle"
    /\ last.origin = "timer"
    /\ last.stopped
    /\ ~sched.running
    /\ Len(last.ret) = 2
    /\ sched.optimizeCount = 1
    /\ \E i \in 1..2 :
          /\ last.ret[i].improved
          /\ last.called[i].id \in DOMAIN store
          /\ Count(store, last.called[i].id) = 2
    /\ disk = save(store)

\* ---- C25

\* C25: every crawl cycle that returns has grown the crawl counter by exactly
\* one, whether the loader resolved or rejected; the last-crawl timestamp is
\* written only when the loader resolved; the counter never decreases.
C25_EveryCrawlCounts ==
    [][/\ CycleReturns("crawl") =>
             /\ sched'.crawlCount = sched.crawlCount + 1
             /\ last'.failed => sched'.lastCrawl = sched.lastCrawl
             /\ ~last'.failed => sched'.lastCrawl = runtime.now
       /\ sched'.crawlCount >= sched.crawlCount]_vars

\* ---- C26

\* C26: runOptimizeCycle called while no prompt provider is set returns an
\* empty list, emits no event, and leaves the controller (its optimize counter
\* and last-optimize timestamp among the rest), the ledger and its file
\* unchanged.
C26_NoProviderNoEffect ==
    [][(sched.getPromptsFn = NoProvider /\ last'.op = "runOptimizeCycle") =>
          /\ ~last'.rejected
          /\ last'.ret = <<>>
          /\ last'.events = <<>>
          /\ sched'.optimizeCount = sched.optimizeCount
          /\ sched'.lastOptimize = sched.lastOptimize
          /\ sched' = sched
          /\ store' = store
          /\ disk' = disk
          /\ cycles' = cycles]_vars

\* The cycle has returned on a controller without provider that has a
\* listener and a ledger with a history.
C26_Witness ==
    /\ last.op = "runOptimizeCycle"
    /\ sched.getPromptsFn = NoProvider
    /\ last.ret = <<>>
    /\ last.events = <<>>
    /\ sched.listeners # <<>>
    /\ sched.versionManager = "vm"
    /\ DOMAIN store # {}
    /\ sched.optimizeCount = 0

\* ---- C27

\* The positions of the candidates of offered whose usage is at least minUsage.
UsedEnough(offered, config) ==
    {i \in 1..Len(offered) : offered[i].usageCount >= config.minUsageForOptimize}

\* The positions a cycle is to process: those of UsedEnough with fewer than
\* maxPerCycle of them in front.
ToProcess(offered, config) ==
    {i \in UsedEnough(offered, config) :
        Cardinality({j \in UsedEnough(offered, config) : j < i})
            < config.maxOptimizePerCycle}

\* seq lists the candidates of offered at the positions of idx, in the order
\* of the provider.
ListsInOrder(seq, offered, idx) ==
    /\ Len(seq) = Cardinality(idx)
    /\ \E f \in [1..Len(seq) -> idx] :
          /\ \A a, b \in 1..Len(seq) : a < b => f[a] < f[b]
          /\ \A a \in 1..Len(seq) : seq[a] = offered[f[a]]

\* The selected prompts the optimizer resolved on, in their order.
Resolved(called) ==
    LET Good(p) == p.content # UndefinedContent IN SelectSeq(called, Good)

\* C27: an optimize cycle that has returned after its provider returned a
\* list has called the optimizer on exactly the first maxPerCycle of the
\* provider's candidates whose usage is at least minUsage, in the order of
\* the provider; its results are those of the prompts the optimizer resolved
\* on, in that order, and there are never more than maxPerCycle of them.
C27_FilterThenTruncate ==
    (last.op = "runOptimizeCycle" /\ sched.getPromptsFn # NoProvider /\ last.events # <<>>
        /\ last.events[Len(last.events)].type = "optimize-done") =>
        /\ ListsInOrder(last.called, last.offered, ToProcess(last.offered, sched.config))
        /\ last.prompts = last.called
        /\ Len(last.ret) = Len(Resolved(last.called))
        /\ \A i \in 1..Len(last.ret) :
              last.ret[i].originalContent = Resolved(last.called)[i].content
        /\ Len(last.ret) <= sched.config.maxOptimizePerCycle

\* Scenario E: usages [3, 5, 0] with minUsage 1 and maxPerCycle 2 have given
\* two results, for the first two candidates.
C27_Witness ==
    /\ last.op = "runOptimizeCycle"
    /\ last.offered = ScenarioE
    /\ sched.config.minUsageForOptimize = 1
    /\ sched.config.maxOptimizePerCycle = 2
    /\ Len(last.ret) = 2
    /\ last.called = <<ScenarioE[1], ScenarioE[2]>>
    /\ \A i \in 1..2 : last.called[i].usageCount > 0

\* ---- C28

\* The types of the events of a cycle, in the order of emission.
EventTypes(events) == [i \in 1..Len(events) |-> events[i].type]

\* The optimizer rejected on at least one prompt of the cycle that returned.
SomeItemFailed == \E i \in 1..Len(last.called) : last.called[i].content = UndefinedContent

\* C28: an optimize cycle in which the optimizer rejected on a prompt has
\* still called it on every other selected prompt and returned normally, with
\* one result for each prompt it resolved on and none for the one that failed;
\* it has emitted optimize-start and optimize-done and no error event, and
\* optimize-done counts the results.  The step in which the optimizer rejects
\* adds no result and goes on to the next prompt, and the cycle that returns
\* has grown the optimize counter by exactly one.
C28_ItemFailureSwallowed ==
    /\ []((last.op = "runOptimizeCycle" /\ SomeItemFailed) =>
            /\ ~last.rejected
            /\ last.called = last.prompts
            /\ Len(last.ret) = Len(Resolved(last.called))
            /\ Len(last.ret) < Len(last.called)
            /\ \A i \in 1..Len(last.ret) :
                  last.ret[i].originalContent = Resolved(last.called)[i].content
            /\ EventTypes(last.events) = <<"optimize-start", "optimize-done">>
            /\ last.events[2].detail.optimized = Len(last.ret))
    /\ [][/\ (cycles["optimize"].kind = "optimize"
              /\ Current("optimize").content = UndefinedContent
              /\ cycles'["optimize"] # cycles["optimize"]) =>
                IF cycles'["optimize"].kind = "optimize"
                THEN /\ cycles'["optimize"].results = cycles["optimize"].results
                     /\ Len(cycles'["optimize"].called)
                           = Len(cycles["optimize"].called) + 1
                ELSE last'.ret = cycles["optimize"].results
          /\ (CycleReturns("optimize") /\ \E i \in 1..Len(cycles["optimize"].called) :
                    cycles["optimize"].called[i].content = UndefinedContent) =>
                sched'.optimizeCount = sched.optimizeCount + 1]_vars

\* The cycle on the list whose first prompt the optimizer rejects on has
\* returned the result of the second, with optimize-done sent to a listener.
C28_Witness ==
    /\ last.op = "runOptimizeCycle"
    /\ last.offered = OneBad
    /\ last.called = OneBad
    /\ Len(last.ret) = 1
    /\ last.ret[1].originalContent = Bare
    /\ EventTypes(last.events) = <<"optimize-start", "optimize-done">>
    /\ last.events[2].calls # <<>>
    /\ sched.optimizeCount = 1

\* ---- C29

\* C29: runOptimizeCycle called with a provider that throws raises nothing to
\* its caller: it returns an empty list after optimize-start and an error
\* event, with no optimize-done, and leaves the controller (its optimize
\* counter among the rest), the ledger and its file unchanged.
C29_ProviderThrowIsCaught ==
    [][(sched.getPromptsFn.kind = "throws" /\ HasFreeSlot("optimize")
          /\ last'.op = "runOptimizeCycle") =>
          /\ ~last'.rejected
          /\ last'.ret = <<>>
          /\ EventTypes(last'.events) = <<"optimize-start", "error">>
          /\ sched'.optimizeCount = sched.optimizeCount
          /\ sched' = sched
          /\ store' = store
          /\ disk' = disk]_vars

\* ---- C30

\* The events a cycle emits in this step: those of the cycle in flight or
\* returned after the step that it did not have before it.
EmittedBy(k) ==
    LET before == IF cycles[k].kind = "idle" THEN <<>> ELSE cycles[k].events
        after == IF cycles'[k].kind # "idle" THEN cycles'[k].events
                 ELSE IF cycles[k].kind # "idle" THEN last'.events
                 ELSE <<>>
    IN {after[i] : i \in (Len(before) + 1)..Len(after)}

\* The event was handed to each of listeners once, in their order.
DeliveredToAll(event, listeners) ==
    /\ Len(event.calls) = Len(listeners)
    /\ \A i \in 1..Len(listeners) :
          /\ event.calls[i].listener = i
          /\ event.calls[i].threw = (listeners[i] = "throws")

\* C30: every event a crawl cycle emits is handed to each listener registered
\* when it is emitted, once and in the order of registration, the listeners
\* behind one that throws included; and what a cycle does is settled by its
\* loader alone, whatever its listeners threw: crawl-start and crawl-done
\* with the counter grown by one when the loader resolved, crawl-start and
\* error when it rejected (crawl-start alone, and a rejection, only when the
\* loader rejected with null).
C30_EveryListenerGetsEveryEvent ==
    /\ [][\A k \in Slots : \A e \in EmittedBy(k) : DeliveredToAll(e, sched.listeners)]_vars
    /\ [](last.op = "runCrawlCycle" =>
            /\ last.rejected => last.failed
            /\ EventTypes(last.events) \in
                  {<<"crawl-start", "crawl-done">>, <<"crawl-start", "error">>,
                   <<"crawl-start">>}
            /\ EventTypes(last.events) = <<"crawl-start", "crawl-done">> <=> ~last.failed
            /\ EventTypes(last.events) = <<"crawl-start">> <=> last.rejected)
    /\ [][CycleReturns("crawl") /\ ~last'.failed =>
             sched'.crawlCount = sched.crawlCount + 1]_vars

\* A crawl cycle has returned whose crawl-done went first to a listener that
\* threw and then to one that returned.
C30_Witness ==
    /\ last.op = "runCrawlCycle"
    /\ ~last.failed
    /\ EventTypes(last.events) = <<"crawl-start", "crawl-done">>
    /\ Len(last.events[2].calls) = 2
    /\ last.events[2].calls[1].threw
    /\ ~last.events[2].calls[2].threw
    /\ sched.crawlCount = 1

\* ---- C31

\* The prompts of called the optimizer has rejected on: all those without
\* content but the one it may still be working on.
FailedBefore(called) ==
    Cardinality({i \in 1..(Len(called) - 1) : called[i].content = UndefinedContent})

\* C31: while an optimize cycle is in flight the optimizer has been called
\* on a prefix of its selected prompts and every one of these calls but the
\* last has settled (a result pushed, or a failure swallowed), so exactly one
\* is pending; and the call on the next prompt is made only in the step in
\* which the pending one settles, after its result was pushed and its version
\* committed to the ledger, or after it failed.
C31_OneItemAtATime ==
    /\ [](cycles["optimize"].kind = "optimize" =>
            LET c == cycles["optimize"]
            IN /\ Len(c.called) \in 1..Len(c.prompts)
               /\ c.called = SubSeq(c.prompts, 1, Len(c.called))
               /\ Len(c.called) - (Len(c.results) + FailedBefore(c.called)) = 1)
    /\ [][(cycles["optimize"].kind = "optimize" /\ cycles'["optimize"].kind = "optimize"
              /\ cycles'["optimize"].called # cycles["optimize"].called) =>
             LET c == cycles["optimize"]
                 d == cycles'["optimize"]
                 p == Current("optimize")
             IN /\ d.called = Append(c.called, c.prompts[Len(c.called) + 1])
                /\ \/ /\ p.content = UndefinedContent
                      /\ d.results = c.results
                   \/ /\ Len(d.results) = Len(c.results) + 1
                      /\ SubSeq(d.results, 1, Len(c.results)) = c.results
                      /\ d.results[Len(d.results)].originalContent = p.content
                      /\ (d.results[Len(d.results)].improved /\ c.ledger = "vm"
                            /\ p.id \in DOMAIN store) =>
                               Count(store', p.id) = Count(store, p.id) + 1]_vars

\* The optimizer works on the second prompt of a cycle after the improved
\* variant of the first has been committed to the ledger.
C31_Witness ==
    /\ cycles["optimize"].kind = "optimize"
    /\ Len(cycles["optimize"].called) = 2
    /\ Len(cycles["optimize"].results) = 1
    /\ cycles["optimize"].results[1].improved
    /\ cycles["optimize"].called[1].id \in DOMAIN store
    /\ Count(store, cycles["optimize"].called[1].id) = 2

\* ---- C32

\* C32: optimizePrompt calls compareVersions exactly when its two scores are
\* less than 0.5 apart and the candidate text differs from the original;
\* improved says that the winner is the candidate (B) when it was called, and
\* that the candidate's score is strictly greater when it was not.
C32_CompareIffCloseAndChanged ==
    last.op = "optimizePrompt" =>
        LET r == last.ret
            invoked == last.winner # "none"
        IN /\ invoked <=> (/\ LessThanHalfApart(r.originalScore, r.optimizedScore)
                           /\ r.optimizedContent # r.originalContent)
           /\ r.improved <=> IF invoked THEN last.winner = "B"
                             ELSE r.optimizedScore > r.originalScore

\* optimizePrompt has returned a changed text whose score is exactly 0.5 from
\* the original's: no comparison was made, and the scores decided.
C32_Witness ==
    /\ last.op = "optimizePrompt"
    /\ Abs(last.ret.optimizedScore - last.ret.originalScore) = 5
    /\ last.ret.optimizedContent # last.ret.originalContent
    /\ last.winner = "none"
    /\ last.ret.improved <=> last.ret.optimizedScore > last.ret.originalScore

\* ---- C33

\* C33: when optimizeAndVersion returns a result whose candidate text equals
\* the text supplied, the result does not say improved and no version was
\* appended to the history.
C33_UnchangedTextNeverImproves ==
    [][(Returns /\ last'.ret.optimizedContent = opt.content) =>
          /\ ~last'.ret.improved
          /\ ~Appended(opt.id)]_vars

\* ---- C34

\* The ordinals of history id whose score the step changes, the appended one aside.
Rescored(id) ==
    {i \in 1..Count(store, id) :
        Score(store'[id].versions[i]) # Score(store[id].versions[i])}

\* C34: when optimizeAndVersion appends a version, a version that was already
\* in the history changes its score only if its content equals the supplied
\* text and its score was unset, and then it receives the original score; no
\* existing score is overwritten, at most one version besides the appended one
\* is rescored, and no other history changes.
C34_BackfillOnlyUnsetOriginal ==
    [][(Returns /\ Appended(opt.id)) =>
          /\ \A i \in Rescored(opt.id) :
                /\ store[opt.id].versions[i].content = opt.content
                /\ Score(store[opt.id].versions[i]) = Undefined
                /\ Score(store'[opt.id].versions[i]) = last'.ret.originalScore
          /\ Cardinality(Rescored(opt.id)) <= 1
          /\ \A i \in 1..Count(store, opt.id) :
                store'[opt.id].versions[i].content = store[opt.id].versions[i].content
          /\ \A id \in DOMAIN store \ {opt.id} :
                id \in DOMAIN store' /\ store'[id] = store[id]
      ]_vars

\* C34: optimizeAndVersion has appended a version and the first version, which
\* holds the supplied text, carries the original score (setScore only gives 40).
C34_Witness ==
    /\ last.op = "optimizeAndVersion"
    /\ last.ret.improved
    /\ last.id \in DOMAIN store
    /\ Count(store, last.id) = 2
    /\ store[last.id].versions[1].content = last.content
    /\ Score(store[last.id].versions[1]) = last.ret.originalScore
    /\ last.ret.originalScore # 40

\* ---- C35

\* C35: a rule that fires (its check accepts the text) produces a text its own
\* check rejects, and the transformer applied to its own output returns that
\* output unchanged.
C35_NoRuleFiresTwice ==
    [][/\ (callRuleApply /\ RuleCheck(opt.rule, opt.arg)) =>
             ~RuleCheck(opt.rule, last'.ret)
       /\ callOptimizeWithRules => optimizeWithRules(last'.ret) = last'.ret]_vars

\* ---- C36

\* The events of a finished cycle are its start and then one of done or error.
Bracketed(events, startType, doneType) ==
    /\ Len(events) = 2
    /\ events[1].type = startType
    /\ events[2].type \in {doneType, "error"}

\* An optimize cycle with a provider has run from its call to its end in the step.
ReturnsAtOnce ==
    /\ \E origin \in {"manual", "timer"} : runOptimizeCycleCall(origin)
    /\ sched.getPromptsFn.kind # "null"
    /\ cycles'["optimize"].kind = "idle"

\* C36: every finished optimize cycle with a provider has emitted exactly
\* optimize-start and then one of optimize-done or error, and every finished
\* crawl cycle exactly crawl-start and then one of crawl-done or error.
C36_CyclesAreBracketed ==
    [][/\ (ReturnsAtOnce \/ CycleReturns("optimize")) =>
             Bracketed(last'.events, "optimize-start", "optimize-done")
       /\ CycleReturns("crawl") =>
             Bracketed(last'.events, "crawl-start", "crawl-done")]_vars

\* ---- C37

\* The optimize cycles that end in the step with optimize-done.
DoneInStep ==
    IF \/ \E k \in Slots : cycles[k].kind = "optimize" /\ CycleReturns(k)
       \/ (\E origin \in {"manual", "timer"}, slot \in Slots :
              runOptimizeCycleIn(slot, origin) /\ cycles'[slot].kind = "idle"
              /\ sched.getPromptsFn.kind # "null")
    THEN IF last'.events[Len(last'.events)].type = "optimize-done" THEN 1 ELSE 0
    ELSE 0

\* C37: with optimize cycles that overlap each other and crawl cycles, on one
\* controller and one ledger, every history keeps gapless ascending ordinals
\* and a recommended version that is its best scored (its latest when none is
\* scored), and each step adds to the optimize counter exactly the number of
\* cycles that emitted optimize-done in it, so that the counter, which starts
\* at 0, always equals the number of optimize-done events.
C37_OverlappingCyclesKeepLedgerAndCount ==
    /\ [](\A id \in DOMAIN store :
            /\ Count(store, id) >= 1
            /\ \A i \in 1..Count(store, id) : store[id].versions[i].version = i
            /\ RecommendsBest(store[id]))
    /\ [][sched'.optimizeCount = sched.optimizeCount + DoneInStep]_vars

\* C37: the cycle the timer began has ended with optimize-done and a commit
\* while the cycle called by hand is still in flight, and has committed too.
C37_Witness ==
    /\ last.op = "runOptimizeCycle" /\ last.origin = "timer"
    /\ EventTypes(last.events) = <<"optimize-start", "optimize-done">>
    /\ cycles["optimize"].kind = "optimize" /\ cycles["optimize"].origin = "manual"
    /\ Len(cycles["optimize"].results) >= 1
    /\ sched.optimizeCount = 1
    /\ \E id \in DOMAIN store : Count(store, id) = 3

\* ---- C38

\* The versions of h that the optimizer appended.
AutoOptimized(h) == {i \in 1..Len(h.versions) : h.versions[i].source = "auto-optimize"}

\* C38: whatever number of optimize cycles has run over the provider's list,
\* no history holds two versions with the same content, and none holds more
\* than one version appended by the optimizer.
C38_RepeatedCyclesAppendOnce ==
    \A id \in DOMAIN store :
        /\ \A i, j \in 1..Count(store, id) :
              i < j => store[id].versions[i].content # store[id].versions[j].content
        /\ Cardinality(AutoOptimized(store[id])) <= 1

\* ---- C39

\* The version optimizeAndVersion appended to history id in the step scores
\* at least as high as every other version of the history.
AppendedScoresBest(id) ==
    LET h == store'[id]
        n == Len(h.versions)
    IN \A i \in 1..(n - 1) : Score(h.versions[i]) <= Score(h.versions[n])

\* C39 as stated: whenever optimizeAndVersion appends a version, that version
\* is the recommended version of the history right afterwards.
C39_AppendedIsRecommended ==
    [][(Returns /\ Appended(opt.id)) =>
          store'[opt.id].recommendedVersion = Count(store', opt.id)]_vars

\* C39, amended: whenever optimizeAndVersion appends a version, that version
\* is the recommended version right afterwards exactly when no other version
\* of the history has a higher score (the backfilled score of the original
\* included); otherwise the recommended version stays the best scored one.
C39_AppendedIsRecommendedIffBest ==
    [][(Returns /\ Appended(opt.id)) =>
          /\ (store'[opt.id].recommendedVersion = Count(store', opt.id))
                <=> AppendedScoresBest(opt.id)
          /\ RecommendsBest(store'[opt.id])]_vars

\* C39: optimizeAndVersion has appended version 2 with a score below the 4.0
\* of version 1, and version 1 is still the recommended one.
C39_Witness ==
    /\ last.op = "optimizeAndVersion"
    /\ last.ret.improved
    /\ last.id \in DOMAIN store
    /\ Count(store, last.id) = 2
    /\ store[last.id].versions[2].source = "auto-optimize"
    /\ Score(store[last.id].versions[2]) < Score(store[last.id].versions[1])
    /\ store[last.id].recommendedVersion = 1

\* ---- C40

\* The step ends a forced refresh in which every source failed to fetch.
EverySourceFailed ==
    /\ CycleReturns("crawl")
    /\ ~last'.failed
    /\ \A i \in 1..Len(last'.crawled) : last'.crawled[i].kind = "throws"

\* C40: a forced refresh in which every source fails leaves a non-empty
\* cached corpus as it was, and with it the references retrieved for a text.
C40_FailedRefreshKeepsCorpus ==
    [][(EverySourceFailed /\ sched.optimizer.cachedOpenSourcePrompts # <<>>) =>
          /\ sched'.optimizer.cachedOpenSourcePrompts
                = sched.optimizer.cachedOpenSourcePrompts
          /\ \A q \in Queries :
                References(sched'.optimizer, q) = References(sched.optimizer, q)]_vars

====
